---- MODULE Spec2Model ----
(***************************************************************************)
(* Model of the observation-correlation and artifact-comparison engine of  *)
(* tests/libcurl_consistency/pytest_support:                               *)
(*   compare.py   _validate_pause_resume_contract, _cmp_dict,              *)
(*                _cmp_list_dict, compare_artifacts                        *)
(*   observed.py  parse_httpd_access_log, httpd_observed_list_for_id       *)
(*                                                                         *)
(* A JSON object (a Python dict) is a function whose DOMAIN is its key     *)
(* set, so d.get(k) is None exactly when k \notin DOMAIN d.  A JSON value  *)
(* that is not an object is the one-key function NonObject.  A Python      *)
(* exception is the flag "raised" of a result.  A diff is the record of    *)
(* the f-string that builds it (its template "kind" and its arguments      *)
(* already formatted); Render gives the text the code appends.             *)
(***************************************************************************)
EXTENDS Integers, Sequences, FiniteSets, TLC

VARIABLES
    events,      \* validator input: pause_resume_strict.events of one side
    body_len,    \* validator input: that side's observed body length
    pr_out,      \* result of _validate_pause_resume_contract, or NotRun
    base,        \* baseline artifact document
    qc,          \* candidate (QCurl) artifact document
    cmp_out,     \* result of compare_artifacts(base, qc), or NotRun
    self_out,    \* result of compare_artifacts(A, A), or NotRun
    access_log,  \* httpd access_log: the lines appended so far
    obs_out,     \* result of the extraction called on the log, or NotRun
    helper_in,   \* argument of a test helper: a URL, or a list
    helper_out,  \* result of the test helper called on it, or NotRun
    conns,       \* proxy: the state of each connection and of its worker
    proxy_log,   \* proxy: the JSON lines of the log file
    listening,   \* proxy: the accept loop of serve_forever is running
    clients,     \* observe server: the clients and what they wait for
    handlers,    \* observe server: the handler thread of each request
    observe_log  \* observe server: the JSON lines of LOG_FILE

vars == <<events, body_len, pr_out, base, qc, cmp_out, self_out,
          access_log, obs_out, helper_in, helper_out, conns, proxy_log, listening,
          clients, handlers, observe_log>>

\* the state of the test servers, which the functions of pytest_support
\* never touch
server_vars == <<conns, proxy_log, listening, clients, handlers, observe_log>>

\* no test server has been started
ServersIdle ==
    /\ conns = <<>> /\ proxy_log = <<>> /\ listening = FALSE
    /\ clients = <<>> /\ handlers = <<>> /\ observe_log = <<>>

(***************************************************************************)
(* Python values                                                           *)
(***************************************************************************)

\* {} : the empty dict
EmptyDict == <<>>

\* a JSON value that is not an object (here the string "x")
NonObject == [json_scalar |-> "x"]

\* isinstance(e, dict)
IsDict(e) == "json_scalar" \notin DOMAIN e

\* k in d
Has(d, k) == k \in DOMAIN d

\* f"{d.get(k)}" for an integer-valued key
StrInt(d, k) == IF Has(d, k) THEN ToString(d[k]) ELSE "None"

\* f"{d.get(k)}" for a string-valued key
StrStr(d, k) == IF Has(d, k) THEN d[k] ELSE "None"

\* a result that was not computed yet
NotRun == [done |-> FALSE, raised |-> FALSE, diffs |-> <<>>]

\* d with key k removed
Without(d, k) == [x \in (DOMAIN d) \ {k} |-> d[x]]

\* d with key k set to v
With(d, k, v) == [x \in (DOMAIN d) \cup {k} |-> IF x = k THEN v ELSE d[x]]

(***************************************************************************)
(* Diffs                                                                   *)
(***************************************************************************)

Diff(kind, side, label, idx, a, b) ==
    [kind |-> kind, side |-> side, label |-> label, idx |-> idx, a |-> a, b |-> b]

\* the text of a diff, as the f-strings of compare.py build it
Render(d) ==
    CASE d.kind = "events_missing" ->
            d.side \o " pause_resume_strict.events missing or empty"
      [] d.kind = "not_object" ->
            d.side \o " events[" \o ToString(d.idx) \o "] not an object"
      [] d.kind = "seq" ->
            d.side \o " event seq not increasing at idx=" \o ToString(d.idx)
                   \o ": " \o d.a \o " <= " \o d.b
      [] d.kind = "invalid" ->
            d.side \o " event " \o d.label \o " invalid at idx=" \o ToString(d.idx)
                   \o ": " \o d.a
      [] d.kind = "t_monotonic" ->
            d.side \o " event " \o d.label \o " not monotonic at idx="
                   \o ToString(d.idx) \o ": " \o d.a \o " < " \o d.b
      [] d.kind = "monotonic" ->
            d.side \o " " \o d.label \o " not monotonic at idx=" \o ToString(d.idx)
                   \o ": " \o d.a \o " < " \o d.b
      [] d.kind = "count" ->
            d.side \o " event " \o d.label \o " count mismatch: " \o d.a \o " != 1"
      [] d.kind = "order" ->
            d.side \o " event order invalid: " \o d.label \o " idx=" \o d.a
                   \o " <= " \o d.b
      [] d.kind = "window" ->
            d.side \o " pause window " \o d.label \o " delta != 0: " \o d.a
                   \o " -> " \o d.b
      [] d.kind = "terminal" ->
            d.side \o " finished bytes_written_total mismatch: " \o d.a
                   \o " != body_len " \o d.b
      [] d.kind = "mismatch" ->
            d.label \o " mismatch: " \o d.a \o " != " \o d.b
      [] d.kind = "length" ->
            d.label \o " length mismatch: " \o d.a \o " != " \o d.b
      [] d.kind = "missing" ->
            d.label \o " missing in one side"

(***************************************************************************)
(* compare.py: the pause/resume validator                                  *)
(***************************************************************************)

\* e.get("type") == event_type
TypeIs(e, event_type) == Has(e, "type") /\ e.type = event_type

RECURSIVE IndexFrom(_, _, _)
\* the loop of _index_event_type and of _find_event from position i on:
\* the 0-based index of the first entry of the type, -1 when there is none;
\* e.get raises AttributeError on an entry that is not a dict
IndexFrom(evs, event_type, i) ==
    IF i > Len(evs) THEN [raised |-> FALSE, value |-> -1]
    ELSE IF ~IsDict(evs[i]) THEN [raised |-> TRUE, value |-> -1]
    ELSE IF TypeIs(evs[i], event_type) THEN [raised |-> FALSE, value |-> i - 1]
    ELSE IndexFrom(evs, event_type, i + 1)

_index_event_type(evs, event_type) == IndexFrom(evs, event_type, 1)

\* the first entry of the type, {} when there is none
_find_event(evs, event_type) ==
    LET r == IndexFrom(evs, event_type, 1)
    IN  [raised |-> r.raised,
         value  |-> IF r.raised \/ r.value < 0 THEN EmptyDict ELSE evs[r.value + 1]]

\* not isinstance(seq, int) or seq <= last_seq
SeqNotIncreasing(e, last_seq) == ~Has(e, "seq") \/ e.seq <= last_seq

\* not isinstance(v, int) or v < 0
FieldInvalid(e, f) == ~Has(e, f) \/ e[f] < 0

\* mutant: the monotonicity branch is never taken
FieldNotMonotonic_never(e, f, last) == FALSE

\* v < last
FieldNotMonotonic(e, f, last) == e[f] < last

\* not isinstance(etype, str) or not etype
TypeInvalid(e) == ~Has(e, "type") \/ e.type = ""

\* type_counts.get(t, 0)
CountOf(type_counts, t) == IF t \in DOMAIN type_counts THEN type_counts[t] ELSE 0

\* mutant: type_counts.get(t, 0) < 1, duplicates pass
CountMismatch_lt(n) == n < 1

\* type_counts.get(t, 0) != 1
CountMismatch(n) == n # 1

\* lo_idx >= 0 and hi_idx >= 0 and hi_idx <= lo_idx
OrderInvalid(lo_idx, hi_idx) == lo_idx >= 0 /\ hi_idx >= 0 /\ hi_idx <= lo_idx

\* isinstance(pe_v, int) and isinstance(rr_v, int) and rr_v != pe_v
WindowDelta(pe, rr, f) == Has(pe, f) /\ Has(rr, f) /\ rr[f] # pe[f]

\* isinstance(fin_written, int) and body_len >= 0 and fin_written != body_len
TerminalMismatch(fin, blen) ==
    Has(fin, "bytes_written_total") /\ blen >= 0 /\ fin.bytes_written_total # blen

\* mutant: last_seq = 1
LoopInit_seq1 ==
    [last_seq |-> 1, last_t |-> -1, last_delivered |-> -1, last_written |-> -1,
     type_counts |-> EmptyDict, diffs |-> <<>>]

\* last_seq = 0; last_t = last_delivered = last_written = -1; type_counts = {}
LoopInit ==
    [last_seq |-> 0, last_t |-> -1, last_delivered |-> -1, last_written |-> -1,
     type_counts |-> EmptyDict, diffs |-> <<>>]

\* the if / elif / else chain on one counter (t_us and the two byte counters)
NumCheck(st, e, idx, side, f, last, mono_kind) ==
    IF FieldInvalid(e, f)
    THEN [st EXCEPT !.diffs = Append(@, Diff("invalid", side, f, idx, StrInt(e, f), ""))]
    ELSE IF FieldNotMonotonic(e, f, st[last])
    THEN [st EXCEPT !.diffs =
              Append(@, Diff(mono_kind, side, f, idx, StrInt(e, f), ToString(st[last])))]
    ELSE [st EXCEPT ![last] = e[f]]

\* one iteration of the loop over enumerate(events)
LoopBody(st, e, idx, side) ==
    IF ~IsDict(e)
    THEN [st EXCEPT !.diffs = Append(@, Diff("not_object", side, "", idx, "", ""))]
    ELSE
    LET s1 == IF SeqNotIncreasing(e, st.last_seq)
              THEN [st EXCEPT !.diffs =
                        Append(@, Diff("seq", side, "seq", idx, StrInt(e, "seq"),
                                       ToString(st.last_seq)))]
              ELSE [st EXCEPT !.last_seq = e.seq]
        s2 == NumCheck(s1, e, idx, side, "t_us", "last_t", "t_monotonic")
        s3 == NumCheck(s2, e, idx, side, "bytes_delivered_total", "last_delivered",
                       "monotonic")
        s4 == NumCheck(s3, e, idx, side, "bytes_written_total", "last_written",
                       "monotonic")
    IN  IF TypeInvalid(e)
        THEN [s4 EXCEPT !.diffs =
                  Append(@, Diff("invalid", side, "type", idx, StrStr(e, "type"), ""))]
        ELSE [s4 EXCEPT !.type_counts =
                  IF e.type \in DOMAIN @ THEN [@ EXCEPT ![e.type] = @ + 1]
                  ELSE @ @@ (e.type :> 1)]

RECURSIVE LoopFrom(_, _, _, _)
LoopFrom(st, evs, i, side) ==
    IF i > Len(evs) THEN st
    ELSE LoopFrom(LoopBody(st, evs[i], i - 1, side), evs, i + 1, side)

required_once == <<"start", "pause_req", "pause_effective", "resume_req", "finished">>

RECURSIVE CountDiffs(_, _, _)
\* for t in required_once: count mismatch diffs
CountDiffs(type_counts, side, i) ==
    IF i > Len(required_once) THEN <<>>
    ELSE (IF CountMismatch(CountOf(type_counts, required_once[i]))
          THEN <<Diff("count", side, required_once[i], -1,
                      ToString(CountOf(type_counts, required_once[i])), "1")>>
          ELSE <<>>)
         \o CountDiffs(type_counts, side, i + 1)

\* one of the three index-order checks
OrderDiffs(side, lo_idx, hi_idx, hi_name, lo_name) ==
    IF OrderInvalid(lo_idx, hi_idx)
    THEN <<Diff("order", side, hi_name, -1, ToString(hi_idx),
                lo_name \o " idx=" \o ToString(lo_idx))>>
    ELSE <<>>

\* the zero-delta check on one byte counter
WindowDiffs(side, pe, rr, f) ==
    IF WindowDelta(pe, rr, f)
    THEN <<Diff("window", side, f, -1, StrInt(pe, f), StrInt(rr, f))>>
    ELSE <<>>

_validate_pause_resume_contract(pr, side, blen) ==
    IF ~Has(pr, "events") \/ pr.events = <<>>
    THEN [done |-> TRUE, raised |-> FALSE,
          diffs |-> <<Diff("events_missing", side, "", -1, "", "")>>]
    ELSE
    LET evs     == pr.events
        st      == LoopFrom(LoopInit, evs, 1, side)
        pr_idx  == _index_event_type(evs, "pause_req")
        pe_idx  == _index_event_type(evs, "pause_effective")
        rr_idx  == _index_event_type(evs, "resume_req")
        fin_idx == _index_event_type(evs, "finished")
        pe      == _find_event(evs, "pause_effective")
        rr      == _find_event(evs, "resume_req")
        fin     == _find_event(evs, "finished")
    IN  IF pr_idx.raised \/ pe_idx.raised \/ rr_idx.raised \/ fin_idx.raised
           \/ pe.raised \/ rr.raised \/ fin.raised
        THEN [done |-> TRUE, raised |-> TRUE, diffs |-> <<>>]
        ELSE [done |-> TRUE, raised |-> FALSE,
              diffs |->
                 st.diffs
                 \o CountDiffs(st.type_counts, side, 1)
                 \o OrderDiffs(side, pr_idx.value, pe_idx.value,
                               "pause_effective", "pause_req")
                 \o OrderDiffs(side, pe_idx.value, rr_idx.value,
                               "resume_req", "pause_effective")
                 \o OrderDiffs(side, rr_idx.value, fin_idx.value,
                               "finished", "resume_req")
                 \o (IF pe.value # EmptyDict /\ rr.value # EmptyDict
                     THEN WindowDiffs(side, pe.value, rr.value, "bytes_delivered_total")
                          \o WindowDiffs(side, pe.value, rr.value, "bytes_written_total")
                     ELSE <<>>)
                 \o (IF fin.value # EmptyDict /\ TerminalMismatch(fin.value, blen)
                     THEN <<Diff("terminal", side, "bytes_written_total", -1,
                                 StrInt(fin.value, "bytes_written_total"),
                                 ToString(blen))>>
                     ELSE <<>>)]


(***************************************************************************)
(* compare.py: the field comparators and compare_artifacts                 *)
(***************************************************************************)

\* the keys whose JSON values are integers; every other leaf is a string
\* (nested JSON values are taken by their text)
IntFields ==
    {"body_len", "status", "headers_raw_len", "http_status", "curlcode", "http_code",
     "now_max", "total_max", "request_count", "unique_connections",
     "pause_offset", "pause_count", "resume_count", "resume_delay_ms"}

\* f"{d.get(f)}"
StrOf(d, f) ==
    IF ~Has(d, f) THEN "None"
    ELSE IF f \in IntFields THEN ToString(d[f]) ELSE d[f]

\* lhs.get(f) != rhs.get(f)
GetDiffers(lhs, rhs, f) ==
    \/ Has(lhs, f) # Has(rhs, f)
    \/ Has(lhs, f) /\ Has(rhs, f) /\ lhs[f] # rhs[f]

\* a partial result of the comparison
NoDiffs == [raised |-> FALSE, diffs |-> <<>>]
Raised == [raised |-> TRUE, diffs |-> <<>>]
Diffs(ds) == [raised |-> FALSE, diffs |-> ds]
Then(r1, r2) ==
    IF r1.raised \/ r2.raised THEN Raised
    ELSE [raised |-> FALSE, diffs |-> r1.diffs \o r2.diffs]

\* mutant: the section name goes before the sub-field name
DictLabel_response(f) == "response." \o f

\* the label _cmp_dict gives a field: the bare sub-field name
DictLabel(f) == f

RECURSIVE CmpFields(_, _, _, _, _)
\* for f in fields: the mismatch diffs, each labelled prefix + f
CmpFields(lhs, rhs, fields, prefix, i) ==
    IF i > Len(fields) THEN <<>>
    ELSE (IF GetDiffers(lhs, rhs, fields[i])
          THEN <<Diff("mismatch", "", prefix \o DictLabel(fields[i]), -1,
                      StrOf(lhs, fields[i]), StrOf(rhs, fields[i]))>>
          ELSE <<>>)
         \o CmpFields(lhs, rhs, fields, prefix, i + 1)

\* lhs.get raises AttributeError when a side is not a dict
_cmp_dict(lhs, rhs, fields) ==
    IF ~IsDict(lhs) \/ ~IsDict(rhs) THEN Raised
    ELSE Diffs(CmpFields(lhs, rhs, fields, "", 1))

RECURSIVE CmpElements(_, _, _, _, _)
CmpElements(lhs_list, rhs_list, fields, label, i) ==
    IF i > Len(lhs_list) THEN NoDiffs
    ELSE IF ~IsDict(lhs_list[i]) \/ ~IsDict(rhs_list[i]) THEN Raised
    ELSE Then(Diffs(CmpFields(lhs_list[i], rhs_list[i], fields,
                              label \o "[" \o ToString(i - 1) \o "].", 1)),
              CmpElements(lhs_list, rhs_list, fields, label, i + 1))

\* mutant: after the length diff the common positions are still compared
_cmp_list_dict_zip(lhs_list, rhs_list, fields, label) ==
    LET n == IF Len(lhs_list) < Len(rhs_list) THEN Len(lhs_list) ELSE Len(rhs_list)
    IN  Then(IF Len(lhs_list) # Len(rhs_list)
             THEN Diffs(<<Diff("length", "", label, -1, ToString(Len(lhs_list)),
                              ToString(Len(rhs_list)))>>)
             ELSE NoDiffs,
             CmpElements(SubSeq(lhs_list, 1, n), SubSeq(rhs_list, 1, n), fields, label, 1))

_cmp_list_dict(lhs_list, rhs_list, fields, label) ==
    IF Len(lhs_list) # Len(rhs_list)
    THEN Diffs(<<Diff("length", "", label, -1, ToString(Len(lhs_list)),
                      ToString(Len(rhs_list)))>>)
    ELSE CmpElements(lhs_list, rhs_list, fields, label, 1)

\* mutant: only a missing key counts, an empty dict or list does not
Falsy_none(doc, k) == ~Has(doc, k)

\* not x, for a dict or list x that may be None
Falsy(doc, k) == ~Has(doc, k) \/ DOMAIN doc[k] = {}

Missing(label) == Diffs(<<Diff("missing", "", label, -1, "", "")>>)

request_fields == <<"method", "url", "headers", "body_len", "body_sha256">>
response_fields == <<"status", "http_version", "headers", "body_len", "body_sha256">>
raw_header_opts == <<"headers_raw_len", "headers_raw_sha256", "headers_raw_lines">>

\* requests when either side has the list, else request
CompareRequest(b, q) ==
    IF Has(b, "requests") \/ Has(q, "requests")
    THEN IF Falsy(b, "requests") \/ Falsy(q, "requests")
         THEN Missing("requests")
         ELSE _cmp_list_dict(b.requests, q.requests, request_fields, "requests")
    ELSE IF Falsy(b, "request") \/ Falsy(q, "request")
         THEN Missing("request")
         ELSE _cmp_dict(b.request, q.request, request_fields)

CompareResponses(b, q) ==
    IF Has(b, "responses") \/ Has(q, "responses")
    THEN IF Falsy(b, "responses") \/ Falsy(q, "responses")
         THEN Missing("responses")
         ELSE _cmp_list_dict(b.responses, q.responses, response_fields, "responses")
    ELSE NoDiffs

RECURSIVE RawHeaderDiffs(_, _, _)
\* the optional raw response header fields: presence must agree
RawHeaderDiffs(b_resp, q_resp, i) ==
    IF i > Len(raw_header_opts) THEN <<>>
    ELSE LET opt == raw_header_opts[i]
         IN  (IF Has(b_resp, opt) # Has(q_resp, opt)
              THEN <<Diff("missing", "", "response." \o opt, -1, "", "")>>
              ELSE IF Has(b_resp, opt) /\ Has(q_resp, opt) /\ b_resp[opt] # q_resp[opt]
              THEN <<Diff("mismatch", "", "response." \o opt, -1,
                          StrOf(b_resp, opt), StrOf(q_resp, opt))>>
              ELSE <<>>)
             \o RawHeaderDiffs(b_resp, q_resp, i + 1)

CompareResponse(b, q) ==
    IF Falsy(b, "response") \/ Falsy(q, "response")
    THEN Missing("response")
    ELSE LET r == _cmp_dict(b.response, q.response, response_fields)
         IN  IF r.raised THEN Raised
             ELSE Then(r, Diffs(RawHeaderDiffs(b.response, q.response, 1)))

CompareCookiejar(b, q) ==
    IF Has(b, "cookiejar") \/ Has(q, "cookiejar")
    THEN IF Falsy(b, "cookiejar") \/ Falsy(q, "cookiejar")
         THEN Missing("cookiejar")
         ELSE _cmp_dict(b.cookiejar, q.cookiejar, <<"records", "sha256">>)
    ELSE NoDiffs

error_opts == <<"curlcode", "http_code">>

RECURSIVE ErrorOptDiffs(_, _, _)
ErrorOptDiffs(b_err, q_err, i) ==
    IF i > Len(error_opts) THEN <<>>
    ELSE (IF Has(b_err, error_opts[i]) # Has(q_err, error_opts[i])
          THEN <<Diff("missing", "", "error." \o error_opts[i], -1, "", "")>>
          ELSE <<>>)
         \o ErrorOptDiffs(b_err, q_err, i + 1)

\* fields = ["kind", "http_status"] + the options both sides carry
ErrorFields(b_err, q_err) ==
    <<"kind", "http_status">>
    \o SelectSeq(error_opts, LAMBDA opt : Has(b_err, opt) /\ Has(q_err, opt))

CompareError(b, q) ==
    IF Has(b, "error") \/ Has(q, "error")
    THEN IF ~Has(b, "error") \/ ~Has(q, "error")
         THEN Missing("error")
         ELSE IF ~IsDict(b.error) \/ ~IsDict(q.error) THEN Raised
         ELSE Then(Diffs(ErrorOptDiffs(b.error, q.error, 1)),
                   _cmp_dict(b.error, q.error, ErrorFields(b.error, q.error)))
    ELSE NoDiffs

lanes == <<"download", "upload">>

RECURSIVE LaneDiffs(_, _, _)
LaneDiffs(b_prog, q_prog, i) ==
    IF i > Len(lanes) THEN NoDiffs
    ELSE LET lane == lanes[i]
         IN  Then(IF ~Has(b_prog, lane) /\ ~Has(q_prog, lane) THEN NoDiffs
                  ELSE IF ~Has(b_prog, lane) \/ ~Has(q_prog, lane)
                  THEN Missing("progress_summary." \o lane)
                  ELSE _cmp_dict(b_prog[lane], q_prog[lane],
                                 <<"monotonic", "now_max", "total_max">>),
                  LaneDiffs(b_prog, q_prog, i + 1))

CompareProgress(b, q) ==
    IF Has(b, "progress_summary") \/ Has(q, "progress_summary")
    THEN IF ~Has(b, "progress_summary") \/ ~Has(q, "progress_summary")
         THEN Missing("progress_summary")
         ELSE IF ~IsDict(b.progress_summary) \/ ~IsDict(q.progress_summary) THEN Raised
         ELSE LaneDiffs(b.progress_summary, q.progress_summary, 1)
    ELSE NoDiffs

\* mutant: the diagnostic field of the section is compared as well
CompareSection_diagnostic(b, q, name, fields) ==
    IF Has(b, name) \/ Has(q, name)
    THEN IF ~Has(b, name) \/ ~Has(q, name)
         THEN Missing(name)
         ELSE _cmp_dict(b[name], q[name], fields \o <<"paused_data_events">>)
    ELSE NoDiffs

\* an optional section compared on fixed sub-fields
CompareSection(b, q, name, fields) ==
    IF Has(b, name) \/ Has(q, name)
    THEN IF ~Has(b, name) \/ ~Has(q, name)
         THEN Missing(name)
         ELSE _cmp_dict(b[name], q[name], fields)
    ELSE NoDiffs

\* int((resp or {}).get("body_len") or 0)
BodyLenOf(doc) ==
    IF Falsy(doc, "response") \/ ~Has(doc.response, "body_len")
    THEN 0
    ELSE doc.response.body_len

\* (resp or {}).get raises AttributeError when response is not a dict
BodyLenRaises(doc) == ~Falsy(doc, "response") /\ ~IsDict(doc.response)

\* mutant: both sides are validated against the baseline body length
SideBodyLen_base(b, q, side) == BodyLenOf(b)

\* the body length handed to the validator of one side
SideBodyLen(b, q, side) == IF side = "baseline" THEN BodyLenOf(b) ELSE BodyLenOf(q)

\* mutant: both sides are validated on the baseline trace
ValidateSide_baseline(b, q, side) ==
    LET r == _validate_pause_resume_contract(b.pause_resume_strict, side,
                                             SideBodyLen(b, q, side))
    IN  [raised |-> r.raised, diffs |-> r.diffs]

\* the validator's result as a partial result
ValidateSide(b, q, side) ==
    LET r == _validate_pause_resume_contract(
                 IF side = "baseline" THEN b.pause_resume_strict
                 ELSE q.pause_resume_strict,
                 side, SideBodyLen(b, q, side))
    IN  [raised |-> r.raised, diffs |-> r.diffs]

CompareStrict(b, q) ==
    IF Has(b, "pause_resume_strict") \/ Has(q, "pause_resume_strict")
    THEN IF ~Has(b, "pause_resume_strict") \/ ~Has(q, "pause_resume_strict")
         THEN Missing("pause_resume_strict")
         ELSE Then(_cmp_dict(b.pause_resume_strict, q.pause_resume_strict,
                             <<"schema", "proto", "pause_offset", "resume_delay_ms">>),
              Then(IF BodyLenRaises(b) \/ BodyLenRaises(q) THEN Raised ELSE NoDiffs,
              Then(ValidateSide(b, q, "baseline"), ValidateSide(b, q, "qcurl"))))
    ELSE NoDiffs

compare_artifacts(b, q) ==
    LET r == Then(CompareRequest(b, q),
             Then(CompareResponses(b, q),
             Then(CompareResponse(b, q),
             Then(CompareCookiejar(b, q),
             Then(CompareError(b, q),
             Then(CompareProgress(b, q),
             Then(CompareSection(b, q, "connection_observed",
                                 <<"request_count", "unique_connections", "conn_seq">>),
             Then(CompareSection(b, q, "pause_resume",
                                 <<"pause_offset", "pause_count", "resume_count",
                                   "event_seq">>),
                  CompareStrict(b, q)))))))))
    IN  [done |-> TRUE, raised |-> r.raised, ok |-> ~r.raised /\ r.diffs = <<>>,
         diffs |-> r.diffs]

(***************************************************************************)
(* observed.py: the httpd access_log and the observations read from it     *)
(***************************************************************************)

\* A text is a sequence of tokens.  A token is one character, or a word or
\* percent-escape that no operation splits; no token is a prefix of another,
\* so that a text has one token sequence.  CodeOrder lists the tokens in the
\* order Python gives strings (code points).
Words == {"1", "a", "b", "id", "k", "t1", "t2"}
CodeOrder ==
    <<" ", "#", "%23", "%26", "%2F", "%3A", "%3D", "%3F", "&", "+", "/", "1", ":",
      "=", "?", "a", "b", "id", "k", "t1", "t2">>

RECURSIVE Text(_)
\* the text as one string
Text(s) == IF s = <<>> THEN "" ELSE Head(s) \o Text(Tail(s))

\* a request URL written out: its path, and "?" with the key=value pairs of
\* its query joined by "&" (kv is a sequence of <<key, value>>, "" for no text)
RECURSIVE Url(_, _)
Url(path, kv) ==
    IF kv = <<>> THEN path
    ELSE Url(path \o (IF "?" \in { path[i] : i \in 1..Len(path) } THEN <<"&">> ELSE <<"?">>)
                  \o <<Head(kv)[1], "=">>
                  \o (IF Head(kv)[2] = "" THEN <<>> ELSE <<Head(kv)[2]>>),
             Tail(kv))

\* one line of the access_log, ts|proto|method|url|status|range|content-length,
\* by the number of its "|"-separated parts and their stripped values
LogLine(nparts, proto, method, url, status, range_v, cl_v) ==
    [nparts |-> nparts, proto |-> proto, method |-> method, url |-> url,
     status |-> status, range |-> range_v, content_length |-> cl_v]

\* s.find: the first position of a token of cs, 0 if there is none
Find(s, cs) ==
    IF \E i \in 1..Len(s) : s[i] \in cs
    THEN CHOOSE i \in 1..Len(s) : s[i] \in cs /\ \A j \in 1..(i - 1) : s[j] \notin cs
    ELSE 0

\* s[i:] and s[:i] with positions from 1
From(s, i) == SubSeq(s, i, Len(s))
Upto(s, i) == SubSeq(s, 1, i)

RECURSIVE lstrip(_)
\* url.lstrip(_WHATWG_C0_CONTROL_OR_SPACE)
lstrip(s) == IF s # <<>> /\ Head(s) = " " THEN lstrip(Tail(s)) ELSE s

\* urllib.parse.urlsplit: scheme, netloc, path, query and fragment of a URL
urlsplit(text) ==
    LET Query(scheme, netloc, url3, fragment) ==
            LET q == Find(url3, {"?"})
            IN  [scheme |-> scheme, netloc |-> netloc,
                 path |-> IF q = 0 THEN url3 ELSE Upto(url3, q - 1),
                 query |-> IF q = 0 THEN <<>> ELSE From(url3, q + 1),
                 fragment |-> fragment]
        Fragment(scheme, netloc, url2) ==
            LET f == Find(url2, {"#"})
            IN  Query(scheme, netloc,
                      IF f = 0 THEN url2 ELSE Upto(url2, f - 1),
                      IF f = 0 THEN <<>> ELSE From(url2, f + 1))
        Netloc(scheme, url1) ==
            LET has_netloc == Len(url1) >= 2 /\ url1[1] = "/" /\ url1[2] = "/"
                after == From(url1, 3)
                delim == Find(after, {"/", "?", "#"})
            IN  Fragment(scheme,
                         IF ~has_netloc THEN <<>>
                         ELSE IF delim = 0 THEN after ELSE Upto(after, delim - 1),
                         IF ~has_netloc THEN url1
                         ELSE IF delim = 0 THEN <<>> ELSE From(after, delim))
        Scheme(url0) ==
            LET i == Find(url0, {":"})
                has_scheme == /\ i > 1
                              /\ url0[1] \in Words \ {"1"}
                              /\ \A j \in 1..(i - 1) : url0[j] \in Words \cup {"+"}
            IN  Netloc(IF has_scheme THEN Upto(url0, i - 1) ELSE <<>>,
                       IF has_scheme THEN From(url0, i + 1) ELSE url0)
    IN  Scheme(lstrip(text))

\* urllib.parse.urlunsplit
urlunsplit(scheme, netloc, path, query, fragment) ==
    LET url1 == IF netloc # <<>>
                THEN <<"/", "/">> \o netloc
                     \o (IF path # <<>> /\ Head(path) # "/" THEN <<"/">> ELSE <<>>) \o path
                ELSE path
        url2 == IF scheme # <<>> THEN scheme \o <<":">> \o url1 ELSE url1
        url3 == IF query # <<>> THEN url2 \o <<"?">> \o query ELSE url2
    IN  IF fragment # <<>> THEN url3 \o <<"#">> \o fragment ELSE url3

RECURSIVE Split(_, _)
\* s.split(sep)
Split(s, sep) ==
    LET i == Find(s, {sep})
    IN  IF i = 0 THEN <<s>> ELSE <<Upto(s, i - 1)>> \o Split(From(s, i + 1), sep)

\* unquote(s.replace("+", " ")), token by token
unquote_plus(s) ==
    [i \in 1..Len(s) |->
        CASE s[i] = "+" -> " "
          [] s[i] = "%23" -> "#"
          [] s[i] = "%26" -> "&"
          [] s[i] = "%2F" -> "/"
          [] s[i] = "%3A" -> ":"
          [] s[i] = "%3D" -> "="
          [] s[i] = "%3F" -> "?"
          [] OTHER -> s[i]]

\* urllib.parse.quote_plus, token by token: words are safe
quote_plus(s) ==
    [i \in 1..Len(s) |->
        CASE s[i] = " " -> "+"
          [] s[i] = "#" -> "%23"
          [] s[i] = "&" -> "%26"
          [] s[i] = "/" -> "%2F"
          [] s[i] = ":" -> "%3A"
          [] s[i] = "=" -> "%3D"
          [] s[i] = "?" -> "%3F"
          [] OTHER -> s[i]]

\* urllib.parse.parse_qsl: the <<name, value>> pairs of a query; an empty
\* pair is skipped, and a pair with a blank value unless keep_blank_values
parse_qsl(qs, keep_blank_values) ==
    LET pairs == Split(qs, "&")
        Name(nv) == IF Find(nv, {"="}) = 0 THEN nv ELSE Upto(nv, Find(nv, {"="}) - 1)
        Value(nv) == IF Find(nv, {"="}) = 0 THEN <<>> ELSE From(nv, Find(nv, {"="}) + 1)
        kept == SelectSeq(pairs,
                          LAMBDA nv : nv # <<>> /\ (keep_blank_values \/ Value(nv) # <<>>))
    IN  [i \in 1..Len(kept) |-> <<unquote_plus(Name(kept[i])), unquote_plus(Value(kept[i]))>>]

RECURSIVE KeysOf(_)
\* the keys of a query in order of first appearance
KeysOf(query) ==
    IF query = <<>> THEN <<>>
    ELSE <<Head(query)[1]>>
         \o KeysOf(SelectSeq(Tail(query), LAMBDA p : p[1] # Head(query)[1]))

\* the values a query gives one key, in order
ValuesOf(query, key) ==
    LET ps == SelectSeq(query, LAMBDA p : p[1] = key)
    IN  [i \in 1..Len(ps) |-> ps[i][2]]

\* urllib.parse.parse_qs: key -> list of values, keys in order of first
\* appearance
parse_qs(qs, keep_blank_values) ==
    LET pairs == parse_qsl(qs, keep_blank_values)
        keys == KeysOf(pairs)
    IN  [i \in 1..Len(keys) |-> [key |-> keys[i], values |-> ValuesOf(pairs, keys[i])]]

RECURSIVE urlencode(_)
\* urllib.parse.urlencode(q, doseq=True): one key=value per value, key by
\* key, joined by "&"
urlencode(q) ==
    IF q = <<>> THEN <<>>
    ELSE LET k == quote_plus(Head(q).key)
             vs == Head(q).values
             RECURSIVE Pairs(_)
             Pairs(i) == IF i > Len(vs) THEN <<>>
                         ELSE (IF i > 1 THEN <<"&">> ELSE <<>>)
                              \o k \o <<"=">> \o quote_plus(vs[i]) \o Pairs(i + 1)
             rest == urlencode(Tail(q))
         IN  Pairs(1) \o (IF rest = <<>> THEN <<>> ELSE <<"&">> \o rest)

\* q = parse_qs(u.query, keep_blank_values=True); q.pop("id", None)
WithoutId(query) ==
    urlencode(SelectSeq(parse_qs(query, TRUE), LAMBDA g : g.key # <<"id">>))

\* observed.py: the URL rebuilt from the path and the remaining query only
_strip_query_id(url) ==
    LET u == urlsplit(url)
    IN  urlunsplit(<<>>, <<>>, u.path, WithoutId(u.query), <<>>)

\* proto.startswith("HTTP/2")
_normalize_http_proto(proto) ==
    IF proto \in {"HTTP/2", "HTTP/2.0"} THEN "h2" ELSE "http/1.1"

\* q.get("id", [""])[0] of parse_qs(u.query)
ReqIdOf(url) ==
    LET ids == SelectSeq(parse_qs(urlsplit(url).query, FALSE), LAMBDA g : g.key = <<"id">>)
    IN  IF ids = <<>> THEN "" ELSE Text(Head(ids).values[1])

\* http_observe_server.py: the same, keeping scheme, netloc and fragment
http_observe_server_strip_query_id(path_or_url) ==
    LET parts == urlsplit(path_or_url)
    IN  urlunsplit(parts.scheme, parts.netloc, parts.path, WithoutId(parts.query),
                   parts.fragment)

\* mutant: the separator is always "?"
_append_req_id_question(url, req_id) == url \o <<"?", "id", "=", req_id>>

\* f"{url}{sep}id={req_id}" with sep "&" if "?" in url else "?"
_append_req_id(url, req_id) ==
    url \o (IF Find(url, {"?"}) # 0 THEN <<"&">> ELSE <<"?">>) \o <<"id", "=", req_id>>

\* the entries of the lines that split into exactly 7 parts (a missing file
\* reads as no line)
parse_httpd_access_log(log) ==
    LET lines == SelectSeq(log, LAMBDA l : l.nparts = 7)
    IN  [i \in 1..Len(lines) |->
            [proto |-> lines[i].proto, method |-> lines[i].method,
             url |-> lines[i].url, status |-> lines[i].status,
             range |-> lines[i].range, content_length |-> lines[i].content_length,
             id |-> ReqIdOf(lines[i].url)]]

\* str.upper on the logged methods
Upper(method) ==
    CASE method = "get" -> "GET"
      [] method = "post" -> "POST"
      [] method = "connect" -> "CONNECT"
      [] OTHER -> method

\* the decimal status texts of the log; int() raises ValueError on any
\* other non-empty text
StatusTexts == {"200", "302"}
IntOfStatus(status) ==
    CASE status = "" -> 0
      [] status = "200" -> 200
      [] status = "302" -> 302

\* the headers of an observation: a value is kept unless it is "" or "-"
ObservedHeaders(e, include_content_length) ==
    LET names == (IF e.range \notin {"", "-"} THEN {"range"} ELSE {})
                 \cup (IF include_content_length /\ e.content_length \notin {"", "-"}
                       THEN {"content-length"} ELSE {})
    IN  [h \in names |-> IF h = "range" THEN e.range ELSE e.content_length]

\* HttpdObserved(method, url, http_version, status, headers)
HttpdObserved(e, include_content_length) ==
    [method |-> Upper(e.method),
     url |-> _strip_query_id(e.url),
     http_version |-> _normalize_http_proto(e.proto),
     status |-> IntOfStatus(e.status),
     headers |-> ObservedHeaders(e, include_content_length)]

\* u < v on strings: at the first position where they differ u has the
\* token of lower code, or u is a proper prefix of v
UrlLess(u, v) ==
    LET Code(c) == CHOOSE i \in 1..Len(CodeOrder) : CodeOrder[i] = c
    IN  \E i \in 1..Len(v) :
            /\ \A j \in 1..(i - 1) : j <= Len(u) /\ u[j] = v[j]
            /\ i > Len(u) \/ (Len(u) >= i /\ Code(u[i]) < Code(v[i]))

\* mutant: the observations stay in file order
SortedByUrl_fileorder(observed) == observed

RECURSIVE SortedByUrl(_)
\* sorted(observed, key=lambda x: x.url): ascending by url, and stable
SortedByUrl(observed) ==
    IF observed = <<>> THEN <<>>
    ELSE LET x == observed[Len(observed)]
             front == SortedByUrl(SubSeq(observed, 1, Len(observed) - 1))
             n == Cardinality({ i \in 1..Len(front) : ~UrlLess(x.url, front[i].url) })
         IN  SubSeq(front, 1, n) \o <<x>> \o SubSeq(front, n + 1, Len(front))

\* a result of the extraction: the list, or the exception raised
Extracted(observed) == [raised |-> FALSE, error |-> "", observed |-> observed]
ExtractRaised(error) == [raised |-> TRUE, error |-> error, observed |-> <<>>]

httpd_observed_list_for_id(log, req_id, expected_count, include_content_length) ==
    LET entries == SelectSeq(parse_httpd_access_log(log), LAMBDA e : e.id = req_id)
    IN  IF entries = <<>> THEN ExtractRaised("AssertionError: no matching record")
        ELSE IF expected_count > 0 /\ Len(entries) # expected_count
        THEN ExtractRaised("AssertionError: record count mismatch")
        ELSE IF \E i \in 1..Len(entries) : entries[i].status \notin StatusTexts \cup {""}
        THEN ExtractRaised("ValueError")
        ELSE Extracted(SortedByUrl(
                 [i \in 1..Len(entries) |->
                     HttpdObserved(entries[i], include_content_length)]))

\* (alpn or "").strip().lower(): h3* -> "h3", "h2" -> "h2", else "http/1.1"
_normalize_alpn_proto(alpn) ==
    IF alpn \in {"h3", "H3", "h3-29"} THEN "h3"
    ELSE IF alpn \in {"h2", "H2"} THEN "h2"
    ELSE "http/1.1"

\* the observation of an nghttpx entry: ts|alpn|method|path|status|range|cl,
\* the alpn in the place of the proto and the path in the place of the url
NghttpxObserved(e, include_content_length) ==
    [HttpdObserved(e, include_content_length)
        EXCEPT !.http_version = _normalize_alpn_proto(e.proto)]

\* mutant: only a list shorter than expected fails
ExpectedCountFails_short(n, expected_count) == expected_count > 0 /\ n < expected_count

\* expected_count > 0 and len(entries) != expected_count
ExpectedCountFails(n, expected_count) == expected_count > 0 /\ n # expected_count

nghttpx_observed_list_for_id(log, req_id, expected_count, include_content_length) ==
    LET entries == SelectSeq(parse_httpd_access_log(log), LAMBDA e : e.id = req_id)
    IN  IF entries = <<>> THEN ExtractRaised("AssertionError: no matching record")
        ELSE IF ExpectedCountFails(Len(entries), expected_count)
        THEN ExtractRaised("AssertionError: record count mismatch")
        ELSE IF \E i \in 1..Len(entries) : entries[i].status \notin StatusTexts \cup {""}
        THEN ExtractRaised("ValueError")
        ELSE Extracted(SortedByUrl(
                 [i \in 1..Len(entries) |->
                     NghttpxObserved(entries[i], include_content_length)]))

\* mutant: a logged Range of "-" counts as a range request
has_range_nonempty(e) == e.range # ""

\* has_range(e): the logged Range, trimmed, is neither "" nor "-"
has_range(e) == e.range \notin {"", "-"}

\* httpd_observed_for_id and nghttpx_observed_for_id, which differ in the
\* observation they build: the first matching entry, or with require_range
\* the first matching entry that is a range request
_observed_for_id(nghttpx, log, req_id, require_range, include_content_length) ==
    LET entries == SelectSeq(parse_httpd_access_log(log), LAMBDA e : e.id = req_id)
        ranged == SelectSeq(entries, has_range)
        chosen == IF require_range THEN Head(ranged) ELSE Head(entries)
    IN  IF entries = <<>> THEN ExtractRaised("AssertionError: no matching record")
        ELSE IF require_range /\ ranged = <<>>
        THEN ExtractRaised("AssertionError: no Range request observed")
        ELSE IF require_range /\ ranged = entries
        THEN ExtractRaised("AssertionError: no first (non-Range) request observed")
        ELSE IF chosen.status \notin StatusTexts \cup {""} THEN ExtractRaised("ValueError")
        ELSE Extracted(IF nghttpx THEN NghttpxObserved(chosen, include_content_length)
                       ELSE HttpdObserved(chosen, include_content_length))

httpd_observed_for_id(log, req_id, require_range, include_content_length) ==
    _observed_for_id(FALSE, log, req_id, require_range, include_content_length)

nghttpx_observed_for_id(log, req_id, require_range, include_content_length) ==
    _observed_for_id(TRUE, log, req_id, require_range, include_content_length)

\* a line of the handshake log that json.loads accepts, with its value; it
\* holds no "|", so it is one part to the access-log parsers
JsonLine(value) == [nparts |-> 1, json |-> value]

\* the values of the lines that parse as JSON (a missing file reads as no
\* line; a line that raises JSONDecodeError is skipped)
parse_ws_handshake_log(log) ==
    LET lines == SelectSeq(log, LAMBDA l : "json" \in DOMAIN l)
    IN  [i \in 1..Len(lines) |-> lines[i].json]

\* WsObserved(method, url, headers); Lower is str(k).lower() on the
\* handshake header names
WsObserved(e) ==
    LET headers_in == IF Has(e, "headers") THEN e.headers ELSE EmptyDict
        Lower(name) == IF name = "Upgrade" THEN "upgrade" ELSE name
    IN  [method |-> "GET",
         url |-> _strip_query_id(IF Has(e, "path") THEN e.path ELSE <<"/">>),
         headers |-> [h \in { Lower(k) : k \in DOMAIN headers_in } |->
                         headers_in[CHOOSE k \in DOMAIN headers_in : Lower(k) = h]]]

\* e.get on a parsed value that is not an object raises AttributeError
ws_observed_for_id(log, req_id) ==
    LET parsed == parse_ws_handshake_log(log)
        entries == SelectSeq(parsed,
                             LAMBDA e : (IF Has(e, "id") THEN e.id ELSE "") = req_id)
    IN  IF \E i \in 1..Len(parsed) : ~IsDict(parsed[i])
        THEN ExtractRaised("AttributeError")
        ELSE IF entries = <<>> THEN ExtractRaised("AssertionError: no matching record")
        ELSE Extracted(WsObserved(Head(entries)))

(***************************************************************************)
(* Test helpers: the redirect-chain order and the connection-reuse summary *)
(***************************************************************************)

\* mutant: the observations stay in arrival order
_order_redir_chain_arrival(observed_list) == observed_list

RECURSIVE _order_redir_chain(_)
\* sorted(observed_list, key=key, reverse=True): descending by key, equal
\* keys in arrival order; key is the integer after "/redir/", or -1
_order_redir_chain(observed_list) ==
    LET RECURSIVE int(_, _)
        int(digits, acc) ==
            IF digits = <<>> THEN acc
            ELSE CASE Head(digits) = "0" -> int(Tail(digits), 10 * acc)
                   [] Head(digits) = "1" -> int(Tail(digits), 10 * acc + 1)
                   [] Head(digits) = "2" -> int(Tail(digits), 10 * acc + 2)
                   [] Head(digits) = "3" -> int(Tail(digits), 10 * acc + 3)
                   [] OTHER -> -1
        key(o) ==
            IF Len(o.url) > 3 /\ SubSeq(o.url, 1, 3) = <<"/", "redir", "/">>
            THEN int(SubSeq(o.url, 4, Len(o.url)), 0)
            ELSE -1
    IN  IF observed_list = <<>> THEN <<>>
        ELSE LET x == observed_list[Len(observed_list)]
                 front == _order_redir_chain(
                              SubSeq(observed_list, 1, Len(observed_list) - 1))
                 n == Cardinality({ i \in 1..Len(front) : key(front[i]) >= key(x) })
             IN  SubSeq(front, 1, n) \o <<x>> \o SubSeq(front, n + 1, Len(front))

\* mutant: every request is numbered as a new connection
_conn_seq_from_ports_fresh(peer_ports) == [i \in 1..Len(peer_ports) |-> i]

\* the loop over peer_ports with its locals mapping, seq and next_id
_conn_seq_from_ports(peer_ports) ==
    LET RECURSIVE Loop(_, _, _, _)
        Loop(mapping, seq, next_id, i) ==
            IF i > Len(peer_ports) THEN seq
            ELSE LET port == peer_ports[i]
                 IN  IF port \notin DOMAIN mapping
                     THEN Loop(With(mapping, port, next_id), Append(seq, next_id),
                               next_id + 1, i + 1)
                     ELSE Loop(mapping, Append(seq, mapping[port]), next_id, i + 1)
    IN  Loop(EmptyDict, <<>>, 1, 1)

\* the summary of the entries of one id: int(e.get("peer_port") or 0) each
_connection_observed(entries) ==
    LET ports == [i \in 1..Len(entries) |->
                     IF Has(entries[i], "peer_port") THEN entries[i].peer_port ELSE 0]
        seq == _conn_seq_from_ports(ports)
    IN  [request_count |-> Len(entries),
         unique_connections |->
             IF seq = <<>> THEN 0
             ELSE CHOOSE m \in { seq[i] : i \in 1..Len(seq) } :
                      \A i \in 1..Len(seq) : seq[i] <= m,
         conn_seq |-> seq]

(***************************************************************************)
(* The validator applied to bounded event traces                           *)
(***************************************************************************)

\* longest trace of freely chosen event types
MaxEvents == 6
\* most "data" events interleaved with the five lifecycle events
MaxData == 1
\* longest trace of freely chosen seq values
MaxShort == 3
\* longest trace of freely chosen t_us and byte counters
MaxNum == 2

\* one PauseResumeEvent
Ev(type, seq, t_us, delivered, written) ==
    [type |-> type, seq |-> seq, t_us |-> t_us,
     bytes_delivered_total |-> delivered, bytes_written_total |-> written]

\* input: a trace of any event types (the five lifecycle types and one
\* other type) with well-formed counters
TypeTraces ==
    LET EventTypes == {"start", "pause_req", "pause_effective", "resume_req",
                       "finished", "data"}
    IN  \E n \in 0..MaxEvents : \E ts \in [1..n -> EventTypes] :
            /\ events = [i \in 1..n |-> Ev(ts[i], i, i, 0, 0)]
            /\ body_len = 0

\* the five lifecycle events in order, "data" events at the positions P,
\* any byte counters, seq starting at s0
WindowTrace(P, bs, s0) ==
    [i \in 1..(5 + Cardinality(P)) |->
        Ev(IF i \in P THEN "data"
           ELSE required_once[i - Cardinality({p \in P : p < i})],
           s0 + i - 1, i, bs[i][1], bs[i][2])]

\* input: a lifecycle trace with at most MaxData interleaved "data" events;
\* ByteStates are the (bytes_delivered_total, bytes_written_total) of an event
WindowTraces ==
    LET ByteStates == {<<0, 0>>, <<1, 0>>, <<1, 1>>}
    IN  \E k \in 0..MaxData :
        \E P \in { Q \in SUBSET (1..(5 + k)) : Cardinality(Q) = k } :
        \E bs \in [1..(5 + k) -> ByteStates] :
        \E s0 \in (IF k = 0 THEN {0, 1} ELSE {1}) :
        \E bl \in (IF k = 0 THEN {0, 1} ELSE {1}) :
            /\ events = WindowTrace(P, bs, s0)
            /\ body_len = bl

\* input: a short trace of freely chosen seq values; its entries are not an
\* object, have any seq, or have an empty or missing type
SeqTraces ==
    LET SeqEntries ==
            {NonObject}
            \cup { Ev("data", q, 0, 0, 0) : q \in 0..3 }
            \cup { Without(Ev("data", 0, 0, 0, 0), "seq"),
                   Ev("", 1, 0, 0, 0),
                   Without(Ev("data", 2, 0, 0, 0), "type") }
    IN  \E n \in 0..MaxShort : \E tr \in [1..n -> SeqEntries] :
            /\ events = tr
            /\ body_len = 0

\* input: a short trace of events of freely chosen t_us and byte counters;
\* seq is the position
NumTraces ==
    LET NumVals == {-1, 0, 1}
        NumEntries ==
            { Ev("data", 1, t, d, w) : t \in NumVals, d \in {0, 1}, w \in NumVals }
            \cup { Without(Ev("data", 1, 0, 0, 0), f)
                   : f \in {"t_us", "bytes_delivered_total", "bytes_written_total"} }
    IN  \E n \in 0..MaxNum : \E tr \in [1..n -> NumEntries] :
            /\ events = [i \in 1..n |-> [tr[i] EXCEPT !.seq = i]]
            /\ body_len = 0

InitValidator ==
    /\ helper_in = <<>> /\ helper_out = NotRun
    /\ (TypeTraces \/ WindowTraces \/ SeqTraces \/ NumTraces)
    /\ pr_out = NotRun
    /\ base = EmptyDict /\ qc = EmptyDict
    /\ cmp_out = NotRun /\ self_out = NotRun
    /\ access_log = <<>> /\ obs_out = NotRun
    /\ ServersIdle

\* the validator runs on one side's pause_resume_strict section
Validate ==
    /\ ~pr_out.done
    /\ pr_out' = _validate_pause_resume_contract([events |-> events], "baseline", body_len)
    /\ UNCHANGED <<server_vars, helper_in, helper_out, events, body_len, base, qc, cmp_out, self_out,
                   access_log, obs_out>>

NextValidator == Validate

SpecValidator == InitValidator /\ [][NextValidator]_vars

(***************************************************************************)
(* compare_artifacts applied to bounded pairs of artifact documents        *)
(***************************************************************************)

\* longest requests / responses list
MaxList == 2

\* an optional value: <<>> when the key is missing, <<v>> when it holds v
Opt(S) == {<<>>} \cup { <<v>> : v \in S }
SetOpt(doc, k, o) == IF o = <<>> THEN Without(doc, k) ELSE With(doc, k, o[1])

\* a dict, and the dicts that differ from it in one key (changed to another
\* value of the key's type, or removed)
KeyVariants(nom, keys) ==
    LET Alt(f, v) == IF f \in IntFields THEN (IF v = 0 THEN 1 ELSE 0) ELSE v \o "_alt"
    IN  {nom}
        \cup { [nom EXCEPT ![f] = Alt(f, @)] : f \in keys }
        \cup { Without(nom, f) : f \in keys }
OneKeyVariants(nom) == KeyVariants(nom, DOMAIN nom)

\* the documents build_request_semantic and build_response_summary give
NomRequest ==
    [method |-> "GET", url |-> "/data", headers |-> "{}", body_len |-> 0,
     body_sha256 |-> ""]
NomResponse ==
    [status |-> 200, http_version |-> "h2", headers |-> "{}", body_len |-> 1,
     body_sha256 |-> "sha"]
NomDoc(runner) == [runner |-> runner, request |-> NomRequest, response |-> NomResponse]

RequestVariants == OneKeyVariants(NomRequest) \cup {EmptyDict, NonObject}

ResponseVariants ==
    OneKeyVariants(NomResponse) \cup {EmptyDict, NonObject}
    \cup { With(NomResponse, "headers_raw_len", v) : v \in {0, 1} }
    \cup { With(NomResponse, raw_header_opts[i], v)
           : i \in 2..3, v \in {"raw", "raw_alt"} }

\* the optional sections compared on fixed sub-fields, with their variants;
\* a list has at most MaxList elements
SectionVariants(name) ==
    LET Lists(S) == UNION { [1..n -> S] : n \in 0..MaxList }
        RequestElements ==
            {NomRequest, [NomRequest EXCEPT !.url = "/data_alt"],
             Without(NomRequest, "method"), NonObject}
        ResponseElements ==
            {NomResponse, [NomResponse EXCEPT !.status = 302],
             Without(NomResponse, "body_len"), NonObject}
        NomCookiejar == [records |-> "[]", sha256 |-> "sha"]
        NomError == [kind |-> "http", http_status |-> 404]
        NomLane == [monotonic |-> "True", now_max |-> 1, total_max |-> 1]
        NomConnection ==
            [request_count |-> 2, unique_connections |-> 1, conn_seq |-> "[1, 1]"]
        NomPauseResume ==
            [pause_offset |-> 1, pause_count |-> 1, resume_count |-> 1,
             event_seq |-> "['pause', 'resume', 'finished']",
             paused_data_events |-> "[]"]
        ErrorVariants ==
            OneKeyVariants(NomError) \cup {EmptyDict}
            \cup { With(NomError, error_opts[i], v) : i \in 1..2, v \in {0, 1} }
        ProgressVariants ==
            {EmptyDict}
            \cup { [download |-> l] : l \in OneKeyVariants(NomLane) }
            \cup { [download |-> NomLane, upload |-> l]
                   : l \in {NomLane, [NomLane EXCEPT !.now_max = 0]} }
            \cup { [upload |-> NomLane] }
    IN  CASE name = "request" -> RequestVariants
          [] name = "response" -> ResponseVariants
          [] name = "requests" -> Lists(RequestElements)
          [] name = "responses" -> Lists(ResponseElements)
          [] name = "cookiejar" -> OneKeyVariants(NomCookiejar) \cup {EmptyDict}
          [] name = "error" -> ErrorVariants
          [] name = "progress_summary" -> ProgressVariants
          [] name = "connection_observed" -> OneKeyVariants(NomConnection) \cup {EmptyDict}
          [] name = "pause_resume" -> OneKeyVariants(NomPauseResume) \cup {EmptyDict}

\* input: two documents that differ from the nominal one in one section
SectionInputs ==
    \E name \in {"request", "response", "requests", "responses", "cookiejar", "error",
                 "progress_summary", "connection_observed", "pause_resume"} :
    \E vb \in Opt(SectionVariants(name)) : \E vq \in Opt(SectionVariants(name)) :
        /\ base = SetOpt(NomDoc("baseline"), name, vb)
        /\ qc = SetOpt(NomDoc("qcurl"), name, vq)

\* input: both documents carry a requests list, the request sections vary
RequestBesideListInputs ==
    \E vb \in Opt(RequestVariants) : \E vq \in Opt(RequestVariants) :
        /\ base = With(SetOpt(NomDoc("baseline"), "request", vb), "requests",
                       <<NomRequest>>)
        /\ qc = With(SetOpt(NomDoc("qcurl"), "request", vq), "requests",
                     <<NomRequest>>)

\* the five lifecycle events, bytes p at pause_effective, r at resume_req,
\* f at finished
LifeTrace(p, r, f) ==
    WindowTrace({}, <<<<0, 0>>, <<0, 0>>, <<p, p>>, <<r, r>>, <<f, f>>>>, 1)

\* the strict sections: the nominal one with each event trace, and with one
\* scalar key changed or removed
StrictVariants ==
    LET StrictTraces ==
            { LifeTrace(p, r, f) : p \in {0, 1}, r \in {0, 1}, f \in {0, 1} }
            \cup { <<>>,
                   <<NonObject>> \o LifeTrace(1, 1, 1),
                   LifeTrace(1, 1, 1) \o <<NonObject>>,
                   SelectSeq(LifeTrace(1, 1, 1), LAMBDA e : e.type # "pause_effective"),
                   WindowTrace({}, [i \in 1..5 |-> <<1, 1>>], 0) }
        NomStrict(evs) ==
            [schema |-> "qcurl-lc/pause-resume@v1", proto |-> "h2", pause_offset |-> 1,
             resume_delay_ms |-> 200, events |-> evs]
    IN  { NomStrict(evs) : evs \in StrictTraces }
        \cup KeyVariants(NomStrict(LifeTrace(1, 1, 1)),
                         {"schema", "proto", "pause_offset", "resume_delay_ms"})
        \cup {Without(NomStrict(<<>>), "events"), EmptyDict}

\* input: the strict sections and the response body lengths vary
StrictInputs ==
    \E vb \in Opt(StrictVariants) : \E vq \in Opt(StrictVariants) :
    \E lb \in {0, 1} : \E lq \in {0, 1} :
        /\ base = SetOpt(With(NomDoc("baseline"), "response",
                              [NomResponse EXCEPT !.body_len = lb]),
                         "pause_resume_strict", vb)
        /\ qc = SetOpt(With(NomDoc("qcurl"), "response",
                            [NomResponse EXCEPT !.body_len = lq]),
                       "pause_resume_strict", vq)

Init ==
    /\ helper_in = <<>> /\ helper_out = NotRun
    /\ (SectionInputs \/ RequestBesideListInputs \/ StrictInputs)
    /\ cmp_out = NotRun /\ self_out = NotRun
    /\ events = <<>> /\ body_len = 0 /\ pr_out = NotRun
    /\ access_log = <<>> /\ obs_out = NotRun
    /\ ServersIdle

\* assert_artifacts_match: the two documents are compared
Compare ==
    /\ ~cmp_out.done
    /\ cmp_out' = compare_artifacts(base, qc)
    /\ UNCHANGED <<server_vars, helper_in, helper_out, events, body_len, pr_out, base, qc, self_out,
                   access_log, obs_out>>

\* one document is compared with itself
CompareSelf ==
    /\ ~self_out.done
    /\ \E doc \in {base, qc} :
           self_out' = [of |-> doc] @@ compare_artifacts(doc, doc)
    /\ UNCHANGED <<server_vars, helper_in, helper_out, events, body_len, pr_out, base, qc, cmp_out,
                   access_log, obs_out>>

Next == Compare \/ CompareSelf

Spec == Init /\ [][Next]_vars

(***************************************************************************)
(* httpd_observed_list_for_id applied to bounded access logs               *)
(***************************************************************************)

\* most lines in the access_log
MaxLines == 3

\* the lines the server may append; GetLine is a GET line of 7 parts
LogLines ==
    LET GetLine(path, query, status) ==
            LogLine(7, "HTTP/1.1", "GET", Url(path, query), status, "-", "-")
    IN
    { LogLine(7, "h2", "GET", Url(<<"/", "b">>, <<<<"id", "t1">>>>), "200", "bytes=2-3", "-"),
      GetLine(<<"/", "a">>, <<<<"id", "t1">>>>, "200"),
      GetLine(<<"/", "a">>, <<<<"k", "1">>, <<"id", "t1">>>>, "200"),
      GetLine(<<"/", "b">>, <<>>, "200"),
      LogLine(7, "HTTP/1.1", "GET", Url(<<"/", "a">>, <<<<"id", "">>, <<"id", "t2">>>>), "",
              "", ""),
      GetLine(<<"/", "b">>, <<<<"id", "t1">>>>, "-"),
      LogLine(7, "HTTP/2.0", "get", Url(<<"/", "a">>, <<<<"id", "t1">>>>), "302",
              "bytes=0-1", "2"),
      JsonLine([id |-> "t1", path |-> Url(<<"/", "a">>, <<<<"id", "t1">>>>),
                headers |-> [Upgrade |-> "websocket"]]),
      JsonLine(NonObject) }

ReqIds == {"t1", "t2"}

InitExtract ==
    /\ helper_in = <<>> /\ helper_out = NotRun
    /\ access_log = <<>> /\ obs_out = NotRun
    /\ ServersIdle
    /\ events = <<>> /\ body_len = 0 /\ pr_out = NotRun
    /\ base = EmptyDict /\ qc = EmptyDict
    /\ cmp_out = NotRun /\ self_out = NotRun

\* the server appends one line to the access_log
AppendLine ==
    /\ ~obs_out.done
    /\ Len(access_log) < MaxLines
    /\ \E line \in LogLines : access_log' = Append(access_log, line)
    /\ UNCHANGED <<server_vars, helper_in, helper_out, events, body_len, pr_out, base, qc, cmp_out, self_out, obs_out>>

\* a test reads the observations of one correlation id
ExtractList ==
    /\ ~obs_out.done
    /\ \E req_id \in ReqIds : \E expected_count \in 0..MaxLines :
       \E include_content_length \in BOOLEAN :
           obs_out' = [done |-> TRUE, call |-> "httpd_list", req_id |-> req_id,
                       expected_count |-> expected_count,
                       include_content_length |-> include_content_length]
                      @@ httpd_observed_list_for_id(access_log, req_id, expected_count,
                                                    include_content_length)
    /\ UNCHANGED <<server_vars, helper_in, helper_out, events, body_len, pr_out, base, qc, cmp_out, self_out, access_log>>

\* a test reads the observations of one correlation id from an nghttpx log
\* (include_content_length at its default)
ExtractListNghttpx ==
    /\ ~obs_out.done
    /\ \E req_id \in ReqIds : \E expected_count \in 0..MaxLines :
           obs_out' = [done |-> TRUE, call |-> "nghttpx_list", req_id |-> req_id,
                       expected_count |-> expected_count,
                       include_content_length |-> TRUE]
                      @@ nghttpx_observed_list_for_id(access_log, req_id, expected_count,
                                                      TRUE)
    /\ UNCHANGED <<server_vars, helper_in, helper_out, events, body_len, pr_out, base, qc, cmp_out, self_out, access_log>>

\* a test reads the one observation of a correlation id, from an httpd or an
\* nghttpx log (include_content_length at its default)
ExtractOne ==
    /\ ~obs_out.done
    /\ \E req_id \in ReqIds : \E require_range \in BOOLEAN :
           \/ obs_out' = [done |-> TRUE, call |-> "httpd", req_id |-> req_id,
                          require_range |-> require_range]
                         @@ httpd_observed_for_id(access_log, req_id, require_range, TRUE)
           \/ obs_out' = [done |-> TRUE, call |-> "nghttpx", req_id |-> req_id,
                          require_range |-> require_range]
                         @@ nghttpx_observed_for_id(access_log, req_id, require_range, TRUE)
    /\ UNCHANGED <<server_vars, helper_in, helper_out, events, body_len, pr_out, base, qc, cmp_out, self_out, access_log>>

\* a test reads the handshake of a correlation id from the handshake log
ExtractWs ==
    /\ ~obs_out.done
    /\ \E req_id \in ReqIds :
           obs_out' = [done |-> TRUE, call |-> "ws", req_id |-> req_id]
                      @@ ws_observed_for_id(access_log, req_id)
    /\ UNCHANGED <<server_vars, helper_in, helper_out, events, body_len, pr_out, base, qc, cmp_out, self_out, access_log>>

NextExtract ==
    AppendLine \/ ExtractList \/ ExtractListNghttpx \/ ExtractOne \/ ExtractWs

SpecExtract == InitExtract /\ [][NextExtract]_vars

(***************************************************************************)
(* The URL helpers applied to bounded URL texts                            *)
(***************************************************************************)

MaxUrl == 4

\* a URL of at most MaxUrl tokens: the delimiters urlsplit and parse_qs look
\* for, a space, the key id and another word
InitUrl ==
    /\ \E n \in 0..MaxUrl :
          helper_in \in [1..n -> {"/", "?", "&", "=", "#", ":", " ", "id", "k"}]
    /\ helper_out = NotRun
    /\ events = <<>> /\ body_len = 0 /\ pr_out = NotRun
    /\ base = EmptyDict /\ qc = EmptyDict
    /\ cmp_out = NotRun /\ self_out = NotRun
    /\ access_log = <<>> /\ obs_out = NotRun
    /\ ServersIdle

\* the extractor strips the correlation id from a logged URL
StripQueryId ==
    /\ ~helper_out.done
    /\ helper_out' = [done |-> TRUE, call |-> "observed",
                      url |-> _strip_query_id(helper_in)]
    /\ UNCHANGED <<server_vars, helper_in, events, body_len, pr_out, base, qc, cmp_out, self_out,
                   access_log, obs_out>>

\* the observe server strips the correlation id from a request URL
StripQueryIdServer ==
    /\ ~helper_out.done
    /\ helper_out' = [done |-> TRUE, call |-> "server",
                      url |-> http_observe_server_strip_query_id(helper_in)]
    /\ UNCHANGED <<server_vars, helper_in, events, body_len, pr_out, base, qc, cmp_out, self_out,
                   access_log, obs_out>>

\* a test appends its token to the URL, the server logs the URL requested,
\* and the extractor parses the line
RequestWithId ==
    /\ ~helper_out.done
    /\ \E req_id \in ReqIds :
          LET url == _append_req_id(helper_in, req_id)
              entries == parse_httpd_access_log(
                             <<LogLine(7, "HTTP/1.1", "GET", url, "200", "-", "-")>>)
          IN  helper_out' = [done |-> TRUE, call |-> "append", req_id |-> req_id,
                             url |-> url, id |-> entries[1].id]
    /\ UNCHANGED <<server_vars, helper_in, events, body_len, pr_out, base, qc, cmp_out, self_out,
                   access_log, obs_out>>

NextUrl == StripQueryId \/ StripQueryIdServer \/ RequestWithId

SpecUrl == InitUrl /\ [][NextUrl]_vars

(***************************************************************************)
(* The test helpers applied to bounded lists                               *)
(***************************************************************************)

MaxChain == 4
MaxPorts == 4

\* the URL of the hop that has n redirects left
HopUrl(n) == <<"/", "redir", "/", <<"0", "1", "2", "3">>[n + 1]>>

\* input: the observations of one id in arrival order; hops of a redirect
\* chain, a URL outside the chain and a hop that has no number
ObservedLists ==
    \E n \in 0..MaxChain :
    \E us \in [1..n -> { HopUrl(h) : h \in 0..3 }
                       \cup {<<"/", "a">>, <<"/", "redir", "/", "k">>}] :
        helper_in = [observed_list |-> [i \in 1..n |-> [url |-> us[i]]]]

\* input: the entries of one id in the observe log, with or without a
\* peer_port
PortEntries ==
    \E n \in 0..MaxPorts :
    \E es \in [1..n -> { [peer_port |-> p] : p \in {5001, 5002, 5003} }
                       \cup {EmptyDict}] :
        helper_in = [entries |-> es]

\* lines of a download client's stderr
MaxStderr == 4

\* the summary _parse_pause_resume gives of a stderr. A line is the total of
\* a "[t-<t>] RECV ... total=<n>" line (-1 when the line is no RECV line) and
\* the markers "[t-0] PAUSE", "[t-0] RESUMED", "[t-0] FINISHED" it contains
_parse_pause_resume(stderr_lines, pause_offset) ==
    LET \* the loop over the first k lines
        RECURSIVE ParseLoop(_)
        ParseLoop(k) ==
            IF k = 0
            THEN [pause_count |-> 0, resume_count |-> 0, finished_idx |-> -1,
                  paused_total |-> -1, last_total |-> -1,
                  paused_total_increase_events |-> 0, in_pause |-> FALSE]
            ELSE LET s0 == ParseLoop(k - 1)
                     line == stderr_lines[k]
                     m == line.total >= 0 /\ line.t = "0"
                     grows == m /\ s0.in_pause /\ s0.paused_total >= 0
                                /\ line.total > s0.paused_total
                     last_total == IF m THEN line.total ELSE s0.last_total
                     paused_total_1 == IF grows THEN last_total ELSE s0.paused_total
                 IN  [pause_count |-> s0.pause_count + (IF line.pause THEN 1 ELSE 0),
                      resume_count |-> s0.resume_count + (IF line.resumed THEN 1 ELSE 0),
                      finished_idx |-> IF line.finished /\ s0.finished_idx < 0
                                       THEN k - 1 ELSE s0.finished_idx,
                      paused_total |->
                          IF line.pause /\ paused_total_1 < 0 /\ last_total >= 0
                          THEN last_total ELSE paused_total_1,
                      last_total |-> last_total,
                      paused_total_increase_events |->
                          s0.paused_total_increase_events + (IF grows THEN 1 ELSE 0),
                      in_pause |-> IF line.resumed THEN FALSE
                                   ELSE IF line.pause THEN TRUE ELSE s0.in_pause]
        s == ParseLoop(Len(stderr_lines))
        \* one name per kind of marker that was counted
        event_seq ==
            (IF s.pause_count > 0 THEN <<"pause">> ELSE <<>>)
            \o (IF s.resume_count > 0 THEN <<"resume">> ELSE <<>>)
            \o (IF s.finished_idx >= 0 THEN <<"finished">> ELSE <<>>)
    IN  [pause_offset |-> pause_offset,
         pause_count |-> s.pause_count,
         resume_count |-> s.resume_count,
         paused_data_events |-> s.paused_total_increase_events,
         event_seq |-> event_seq]

\* the inputs of the helpers: the observations of a redirect test, the log
\* entries of a keep-alive test, or the stderr of cli_hx_download -P (RECV
\* lines of transfer 0 and of another transfer, the three markers of
\* transfer 0 in any order and number, and a line with none of them)
InitHelpers ==
    /\ LET StderrLine(t, total, marker) ==
               [t |-> t, total |-> total, pause |-> marker = "PAUSE",
                resumed |-> marker = "RESUMED", finished |-> marker = "FINISHED"]
           StderrLines ==
               \E n \in 0..MaxStderr :
               \E ls \in [1..n -> {StderrLine("0", 1, ""), StderrLine("0", 2, ""),
                                   StderrLine("1", 2, ""),
                                   StderrLine("0", -1, "PAUSE"),
                                   StderrLine("0", -1, "RESUMED"),
                                   StderrLine("0", -1, "FINISHED"),
                                   StderrLine("1", -1, "")}] :
                   helper_in = [stderr_lines |-> ls, pause_offset |-> 102300]
       IN  ObservedLists \/ PortEntries \/ StderrLines
    /\ helper_out = NotRun
    /\ events = <<>> /\ body_len = 0 /\ pr_out = NotRun
    /\ base = EmptyDict /\ qc = EmptyDict
    /\ cmp_out = NotRun /\ self_out = NotRun
    /\ access_log = <<>> /\ obs_out = NotRun
    /\ ServersIdle

\* the redirect test orders the observations of a followed chain
OrderRedirChain ==
    /\ ~helper_out.done /\ Has(helper_in, "observed_list")
    /\ helper_out' = [done |-> TRUE, call |-> "_order_redir_chain",
                      ordered |-> _order_redir_chain(helper_in.observed_list)]
    /\ UNCHANGED <<server_vars, helper_in, events, body_len, pr_out, base, qc, cmp_out, self_out,
                   access_log, obs_out>>

\* the keep-alive test summarises the connections of its requests
ConnectionObserved ==
    /\ ~helper_out.done /\ Has(helper_in, "entries")
    /\ helper_out' = [done |-> TRUE, call |-> "_connection_observed"]
                     @@ _connection_observed(helper_in.entries)
    /\ UNCHANGED <<server_vars, helper_in, events, body_len, pr_out, base, qc, cmp_out, self_out,
                   access_log, obs_out>>

\* the pause/resume test summarises the baseline's stderr
ParsePauseResume ==
    /\ ~helper_out.done /\ Has(helper_in, "stderr_lines")
    /\ helper_out' = [done |-> TRUE, call |-> "_parse_pause_resume"]
                     @@ _parse_pause_resume(helper_in.stderr_lines,
                                            helper_in.pause_offset)
    /\ UNCHANGED <<server_vars, helper_in, events, body_len, pr_out, base, qc, cmp_out, self_out,
                   access_log, obs_out>>

NextHelpers == OrderRedirChain \/ ConnectionObserved \/ ParsePauseResume

SpecHelpers == InitHelpers /\ [][NextHelpers]_vars

(***************************************************************************)
(* http_proxy_server.py: the accept loop and the worker of one connection  *)
(***************************************************************************)

\* connections the clients open to the proxy
MaxConns == 2
\* the relay deadline timeout_s, counted in select rounds that time out
RelayTimeout == 2
\* chunks relayed in one direction that are counted (more are relayed, the
\* counter stays)
MaxRelayed == 1

Conns == 1..MaxConns

\* self._auth_value: "Basic " + base64("lcuser:lcpass")
_auth_value == "Basic bGN1c2VyOmxjcGFzcw=="

\* what a client sends before the worker answers: nothing before it closes
\* ("closed"), nothing until the 10 s timeout ("timeout"), or a request head
\* of a request line (its whitespace-separated parts; a target is a text of
\* tokens) and header lines (raw name -> value)
RequestHeads ==
    LET Head_(line, headers) == [kind |-> "head", line |-> line, headers |-> headers]
        absolute == <<"k", ":", "/", "/", "a", "/", "b", "?", "id", "=", "t1">>
        origin == <<"/", "b", "?", "id", "=", "t1">>
        Auth(v) == [x \in {"Proxy-Authorization", "Host"} |->
                       IF x = "Host" THEN "a" ELSE v]
        good == Auth(_auth_value)
        bad == Auth("Basic bGN1c2VyOng=")
        none == [x \in {"Host"} |-> "a"]
        lower == [x \in {"proxy-authorization"} |-> _auth_value]
    IN  { [kind |-> "closed", line |-> <<>>, headers |-> <<>>],
          [kind |-> "timeout", line |-> <<>>, headers |-> <<>>],
          Head_(<<>>, none),
          Head_(<<"GET", absolute>>, bad),
          Head_(<<"GET", absolute, "HTTP/1.1">>, good),
          Head_(<<"get", absolute, "HTTP/1.1">>, lower),
          Head_(<<"GET", absolute, "HTTP/1.1">>, bad),
          Head_(<<"GET", absolute, "HTTP/1.1">>, none),
          Head_(<<"GET", origin, "HTTP/1.1">>, good),
          Head_(<<"CONNECT", <<"a", ":", "1">>, "HTTP/1.1">>, good),
          Head_(<<"connect", <<"a", ":", "1">>, "HTTP/1.1">>, bad),
          Head_(<<"CONNECT", <<"a", ":", "b">>, "HTTP/1.1">>, good),
          Head_(<<"CONNECT", <<"a">>, "HTTP/1.1">>, good) }

\* a connection nobody has opened yet
NoConn ==
    [pc |-> "idle", head |-> <<>>, client |-> "none", upstream |-> "none",
     method |-> "", target |-> <<>>, version |-> "", auth_ok |-> FALSE,
     req_id |-> "", headers |-> <<>>, sent_407 |-> FALSE, sent_200 |-> FALSE,
     to_client |-> 0, to_upstream |-> 0, elapsed |-> 0, idle |-> 0, why |-> ""]

\* mutant: any Proxy-Authorization header is accepted
auth_ok_any(proxy_auth) == proxy_auth # ""

\* auth_ok = (proxy_auth == self._auth_value)
auth_ok(proxy_auth) == proxy_auth = _auth_value

\* the worker's view of the request head (_handle_conn 109-126): method,
\* target and version, the headers by lower-case name, auth_ok, the id of
\* the target and the allow-listed headers that are not empty
ParsedHead(head) ==
    LET LowerName(k) ==
            CASE k = "Proxy-Authorization" -> "proxy-authorization"
              [] k = "Host" -> "host"
              [] OTHER -> k
        raw == head.headers
        headers == [l \in { LowerName(k) : k \in DOMAIN raw } |->
                       raw[CHOOSE k \in DOMAIN raw : LowerName(k) = l]]
        proxy_auth == IF "proxy-authorization" \in DOMAIN headers
                      THEN headers["proxy-authorization"] ELSE ""
        method == head.line[1]
        target == head.line[2]
        ids == SelectSeq(parse_qs(urlsplit(target).query, TRUE),
                         LAMBDA g : g.key = <<"id">>)
        allow == { n \in {"host", "proxy-authorization", "proxy-connection", "user-agent"} :
                      n \in DOMAIN headers /\ headers[n] # "" }
    IN  [method |-> method, target |-> target, version |-> head.line[3],
         auth_ok |-> auth_ok(proxy_auth),
         req_id |-> IF Upper(method) = "CONNECT" \/ ids = <<>> THEN ""
                    ELSE Text(Head(ids).values[1]),
         headers |-> [n \in allow |-> headers[n]]]

\* mutant: the log file is opened for writing, not for appending
LogAppended_truncate(log, entry) == <<entry>>

\* the log file after _append_log: every worker opens the file for appending
\* and hands the whole line to one write, which the file system appends
\* as one piece
LogAppended(log, entry) == Append(log, entry)

\* ProxyLogEntry of connection c (conn is not a field of the entry: it tells
\* which connection the line was written for)
ProxyLogEntry(c) ==
    [conn |-> c, id |-> conns[c].req_id, method |-> Upper(conns[c].method),
     target |-> conns[c].target, version |-> conns[c].version,
     auth_ok |-> conns[c].auth_ok, headers |-> conns[c].headers]

\* _handle_forward 195-200: the target is absolute and names a host
ForwardTargetOk(target) ==
    LET parts == urlsplit(target)
        colon == Find(parts.netloc, {":"})
        hostname == IF colon = 0 THEN parts.netloc ELSE Upto(parts.netloc, colon - 1)
    IN  parts.scheme # <<>> /\ parts.netloc # <<>> /\ hostname # <<>>

\* _handle_connect 258-264: the target holds ":" and int() accepts what
\* follows the last one
ConnectTargetOk(target) ==
    LET colons == { i \in 1..Len(target) : target[i] = ":" }
        last == CHOOSE i \in colons : \A j \in colons : j <= i
        port_s == From(target, last + 1)
    IN  /\ colons # {}
        /\ port_s # <<>>
        /\ \A i \in 1..Len(port_s) : port_s[i] = "1"

InitProxy ==
    /\ conns = [c \in Conns |-> NoConn]
    /\ proxy_log = <<>>
    /\ listening = TRUE
    /\ events = <<>> /\ body_len = 0 /\ pr_out = NotRun
    /\ base = EmptyDict /\ qc = EmptyDict
    /\ cmp_out = NotRun /\ self_out = NotRun
    /\ access_log = <<>> /\ obs_out = NotRun
    /\ helper_in = <<>> /\ helper_out = NotRun
    /\ clients = <<>> /\ handlers = <<>> /\ observe_log = <<>>

others == <<events, body_len, pr_out, base, qc, cmp_out, self_out, access_log,
            obs_out, helper_in, helper_out, clients, handlers, observe_log>>

\* serve_forever: a connection is accepted and its worker thread started;
\* head is what the client will send
Accept(c) ==
    /\ listening /\ conns[c].pc = "idle"
    /\ \E head \in RequestHeads :
           conns' = [conns EXCEPT ![c] = [@ EXCEPT !.pc = "read", !.head = head,
                                                   !.client = "open"]]
    /\ UNCHANGED <<proxy_log, listening, others>>

\* stop(): the accept loop ends; the workers are daemon threads and go on
Stop ==
    /\ listening
    /\ listening' = FALSE
    /\ UNCHANGED <<conns, proxy_log, others>>

\* _handle_conn 104-126: the head is read and parsed; recv raises on a
\* timeout, and the worker returns on an empty request line or one of fewer
\* than 3 parts
ReadRequestHead(c) ==
    /\ conns[c].pc = "read"
    /\ LET head == conns[c].head
       IN  conns' = [conns EXCEPT ![c] =
               IF head.kind = "timeout" THEN [@ EXCEPT !.pc = "finally", !.why = "exception"]
               ELSE IF head.kind = "closed" \/ Len(head.line) < 3
               THEN [@ EXCEPT !.pc = "finally", !.why = "no request"]
               ELSE [k \in DOMAIN @ |->
                        IF k \in DOMAIN ParsedHead(head) THEN ParsedHead(head)[k]
                        ELSE IF k = "pc" THEN "log" ELSE @[k]]]
    /\ UNCHANGED <<proxy_log, listening, others>>

\* _handle_conn 128-146: the entry is appended, then the worker answers 407,
\* or goes to the CONNECT or the forward handler
AppendLog(c) ==
    /\ conns[c].pc = "log"
    /\ proxy_log' = LogAppended(proxy_log, ProxyLogEntry(c))
    /\ conns' = [conns EXCEPT ![c].pc =
                    IF ~conns[c].auth_ok THEN "send_407"
                    ELSE IF Upper(conns[c].method) = "CONNECT" THEN "connect"
                    ELSE "forward"]
    /\ UNCHANGED <<listening, others>>

\* _send_407: sendall sends the answer, or raises when the client is gone
Send407(c) ==
    /\ conns[c].pc = "send_407"
    /\ \/ conns' = [conns EXCEPT ![c] = [@ EXCEPT !.pc = "finally", !.sent_407 = TRUE,
                                                  !.why = "407"]]
       \/ conns' = [conns EXCEPT ![c] = [@ EXCEPT !.pc = "finally", !.why = "exception"]]
    /\ UNCHANGED <<proxy_log, listening, others>>

\* _handle_forward 195-206: return on a target that is not absolute;
\* create_connection opens the upstream socket or raises
ForwardOpen(c) ==
    /\ conns[c].pc = "forward"
    /\ IF ~ForwardTargetOk(conns[c].target)
       THEN conns' = [conns EXCEPT ![c] = [@ EXCEPT !.pc = "finally", !.why = "bad target"]]
       ELSE \/ conns' = [conns EXCEPT ![c] = [@ EXCEPT !.pc = "forward_send",
                                                       !.upstream = "open"]]
            \/ conns' = [conns EXCEPT ![c] = [@ EXCEPT !.pc = "finally",
                                                       !.why = "exception"]]
    /\ UNCHANGED <<proxy_log, listening, others>>

\* _handle_forward 208-225: the request is sent upstream, or sendall raises
ForwardSend(c) ==
    /\ conns[c].pc = "forward_send"
    /\ \/ conns' = [conns EXCEPT ![c] = [@ EXCEPT !.pc = "forward_recv", !.to_upstream = 1]]
       \/ conns' = [conns EXCEPT ![c] = [@ EXCEPT !.pc = "close_upstream",
                                                  !.why = "exception"]]
    /\ UNCHANGED <<proxy_log, listening, others>>

\* _handle_forward 227-231: a chunk of the response is relayed to the
\* client, the upstream closes, or recv or sendall raises
ForwardRecv(c) ==
    /\ conns[c].pc = "forward_recv"
    /\ \/ conns' = [conns EXCEPT ![c].to_client =
                       IF @ < MaxRelayed THEN @ + 1 ELSE @]
       \/ conns' = [conns EXCEPT ![c] = [@ EXCEPT !.pc = "close_upstream", !.why = "eof"]]
       \/ conns' = [conns EXCEPT ![c] = [@ EXCEPT !.pc = "close_upstream",
                                                  !.why = "exception"]]
    /\ UNCHANGED <<proxy_log, listening, others>>

\* _handle_connect 258-266: return on a target without a port number;
\* create_connection opens the upstream socket or raises
ConnectOpen(c) ==
    /\ conns[c].pc = "connect"
    /\ IF ~ConnectTargetOk(conns[c].target)
       THEN conns' = [conns EXCEPT ![c] = [@ EXCEPT !.pc = "finally", !.why = "bad target"]]
       ELSE \/ conns' = [conns EXCEPT ![c] = [@ EXCEPT !.pc = "connect_reply",
                                                       !.upstream = "open"]]
            \/ conns' = [conns EXCEPT ![c] = [@ EXCEPT !.pc = "finally",
                                                       !.why = "exception"]]
    /\ UNCHANGED <<proxy_log, listening, others>>

\* _handle_connect 268-269 and _relay_bidirectional 240-242: the client is
\* told that the tunnel stands and the deadline end = now + timeout_s is set
\* once, or sendall raises
ConnectReply(c) ==
    /\ conns[c].pc = "connect_reply"
    /\ \/ conns' = [conns EXCEPT ![c] = [@ EXCEPT !.pc = "relay", !.sent_200 = TRUE,
                                                  !.elapsed = 0, !.idle = 0]]
       \/ conns' = [conns EXCEPT ![c] = [@ EXCEPT !.pc = "close_upstream",
                                                  !.why = "exception"]]
    /\ UNCHANGED <<proxy_log, listening, others>>

\* _relay_bidirectional 243-255, one round of the loop. elapsed counts the
\* select timeouts since the deadline was set, idle those since a socket was
\* last readable. The loop ends when now >= end; select times out; or a
\* socket is readable and gives a chunk, which is sent to the other socket
\* (some time may pass), or gives b"" (the peer has closed), or recv or
\* sendall raises
RelayRound(c) ==
    /\ conns[c].pc = "relay"
    /\ LET Later(n) == IF n < RelayTimeout THEN n + 1 ELSE n
           Count(n) == IF n < MaxRelayed THEN n + 1 ELSE n
       IN  IF conns[c].elapsed >= RelayTimeout
           THEN conns' = [conns EXCEPT ![c] = [@ EXCEPT !.pc = "close_upstream",
                                                        !.why = "deadline"]]
           ELSE \/ conns' = [conns EXCEPT ![c] = [@ EXCEPT !.elapsed = Later(@),
                                                           !.idle = Later(@)]]
                \/ \E passed \in BOOLEAN : \E from_client \in BOOLEAN :
                       conns' = [conns EXCEPT ![c] =
                           [@ EXCEPT !.elapsed = IF passed THEN Later(@) ELSE @,
                                     !.idle = 0,
                                     !.to_upstream = IF from_client THEN Count(@) ELSE @,
                                     !.to_client = IF from_client THEN @ ELSE Count(@)]]
                \/ conns' = [conns EXCEPT ![c] = [@ EXCEPT !.pc = "close_upstream",
                                                           !.why = "eof"]]
                \/ conns' = [conns EXCEPT ![c] = [@ EXCEPT !.pc = "close_upstream",
                                                           !.why = "exception"]]
    /\ UNCHANGED <<proxy_log, listening, others>>

\* mutant: the handler returns without closing the upstream socket
CloseUpstream_leak(c) ==
    /\ conns[c].pc = "close_upstream"
    /\ conns' = [conns EXCEPT ![c].pc = "finally"]
    /\ UNCHANGED <<proxy_log, listening, others>>

\* the finally of _handle_forward and of _handle_connect: upstream.close()
CloseUpstream(c) ==
    /\ conns[c].pc = "close_upstream"
    /\ conns' = [conns EXCEPT ![c] = [@ EXCEPT !.pc = "finally", !.upstream = "closed"]]
    /\ UNCHANGED <<proxy_log, listening, others>>

\* the finally of _handle_conn: conn.close(), and the worker ends
CloseConn(c) ==
    /\ conns[c].pc = "finally"
    /\ conns' = [conns EXCEPT ![c] = [@ EXCEPT !.pc = "done", !.client = "closed"]]
    /\ UNCHANGED <<proxy_log, listening, others>>

\* the steps of the worker of connection c
Worker(c) ==
    \/ ReadRequestHead(c) \/ AppendLog(c) \/ Send407(c)
    \/ ForwardOpen(c) \/ ForwardSend(c) \/ ForwardRecv(c)
    \/ ConnectOpen(c) \/ ConnectReply(c) \/ RelayRound(c)
    \/ CloseUpstream(c) \/ CloseConn(c)

NextProxy == Stop \/ \E c \in Conns : Accept(c) \/ Worker(c)

SpecProxy == InitProxy /\ [][NextProxy]_vars

(***************************************************************************)
(* http_observe_server.py: the handler thread of each request, and the     *)
(* clients that follow its redirects                                       *)
(***************************************************************************)

\* clients that send requests at the same time
MaxClients == 2
\* the largest n of a requested /redir/n
MaxHops == 2

Clients == 1..MaxClients

\* str(n) for the hop numbers
Digit(n) == <<"0", "1", "2", "3">>[n + 1]

\* self.path.startswith(prefix)
startswith(path, prefix) ==
    Len(path) >= Len(prefix) /\ SubSeq(path, 1, Len(prefix)) = prefix

\* int(self.path.split("/", 3)[2].split("?", 1)[0]) of a path that starts
\* with "/<word>/", or the default when that raises
SegmentInt(path, default) ==
    LET rest == From(path, 4)
        a == Find(rest, {"/"})
        seg == IF a = 0 THEN rest ELSE Upto(rest, a - 1)
        b == Find(seg, {"?"})
        num == IF b = 0 THEN seg ELSE Upto(seg, b - 1)
    IN  IF Len(num) = 1 /\ \E n \in 0..3 : num[1] = Digit(n)
        THEN CHOOSE n \in 0..3 : num[1] = Digit(n)
        ELSE default

\* q = parse_qs(urlsplit(self.path).query, keep_blank_values=True)
\* req_id = q.get("id", [""])[0]
QueryId(path) ==
    LET ids == SelectSeq(parse_qs(urlsplit(path).query, TRUE),
                         LAMBDA g : g.key = <<"id">>)
    IN  IF ids = <<>> THEN <<>> ELSE Head(ids).values[1]

\* mutant: the delayed response is logged like every other response, after
\* its headers were sent
LogsBeforeResponse_never(path) == FALSE

\* do_GET writes the log entry of /delay_headers/ before it sleeps and sends
LogsBeforeResponse(path) == startswith(path, <<"/", "delay_headers", "/">>)

\* do_GET: the status and the Location of the response to a path
Response(path) ==
    IF startswith(path, <<"/", "delay_headers", "/">>)
    THEN [status |-> 200, location |-> <<>>]
    ELSE IF startswith(path, <<"/", "redir", "/">>)
    THEN LET n == SegmentInt(path, 0)
             req_id == QueryId(path)
             next_path == <<"/", "redir", "/", Digit(n - 1)>>
                          \o (IF req_id # <<>> THEN <<"?", "id", "=">> \o req_id
                              ELSE <<>>)
         IN  IF n > 0 THEN [status |-> 302, location |-> next_path]
             ELSE [status |-> 200, location |-> <<>>]
    ELSE [status |-> 404, location |-> <<>>]

\* _write_log(status, response_headers): the entry of the request h of
\* client c (req is the request the entry was written for, which the file
\* does not hold)
ObserveLogEntry(c, h, status, location) ==
    [req |-> <<c, h>>,
     id |-> Text(QueryId(handlers[c][h].path)),
     method |-> "GET",
     path |-> handlers[c][h].path,
     status |-> status,
     response_headers |->
         IF location = <<>> THEN EmptyDict
         ELSE [k \in {"location"} |-> http_observe_server_strip_query_id(location)]]

\* the handler thread ThreadingHTTPServer starts for a request
NewHandler(path) ==
    [path |-> path, pc |-> "start", sent |-> FALSE, status |-> 0, location |-> <<>>]

InitObserve ==
    /\ clients = [c \in Clients |-> [pc |-> "idle"]]
    /\ handlers = [c \in Clients |-> <<>>]
    /\ observe_log = <<>>
    /\ conns = <<>> /\ proxy_log = <<>> /\ listening = FALSE
    /\ events = <<>> /\ body_len = 0 /\ pr_out = NotRun
    /\ base = EmptyDict /\ qc = EmptyDict
    /\ cmp_out = NotRun /\ self_out = NotRun
    /\ access_log = <<>> /\ obs_out = NotRun
    /\ helper_in = <<>> /\ helper_out = NotRun

unobserved == <<events, body_len, pr_out, base, qc, cmp_out, self_out, access_log,
                obs_out, helper_in, helper_out, conns, proxy_log, listening>>

\* a client connects and sends GET path. Its correlation id is its own; it
\* asks for a redirect chain without the id, with it and with the id
\* followed by an escaped "&", for a delayed response, or for a path the
\* server does not know; k is a segment that is no number
Request(c) ==
    /\ clients[c].pc = "idle"
    /\ LET id == <<"t1", "t2", "t3">>[c]
           Query == {<<>>, <<"?", "id", "=", id>>,
                     <<"?", "id", "=", id, "%26", "k">>}
           RequestPaths ==
               { <<"/", "redir", "/", d>> \o q :
                     d \in { Digit(n) : n \in 0..MaxHops } \cup {"k"}, q \in Query }
               \cup { <<"/", "delay_headers", "/", d, "?", "id", "=", id>>
                      : d \in {"0", "2"} }
               \cup { <<"/", "k", "?", "id", "=", id>> }
       IN  \E path \in RequestPaths :
               handlers' = [handlers EXCEPT ![c] = <<NewHandler(path)>>]
    /\ clients' = [clients EXCEPT ![c].pc = "waiting"]
    /\ UNCHANGED <<observe_log, unobserved>>

\* the client reads the response to its last request: it follows the
\* Location of a 302 with a request on a new connection, and is done with
\* any other status
Receive(c) ==
    /\ clients[c].pc = "waiting"
    /\ LET h == handlers[c][Len(handlers[c])]
       IN  /\ h.sent
           /\ IF h.status = 302
              THEN /\ handlers' = [handlers EXCEPT
                                      ![c] = Append(@, NewHandler(h.location))]
                   /\ UNCHANGED clients
              ELSE /\ clients' = [clients EXCEPT ![c].pc = "done"]
                   /\ UNCHANGED handlers
    /\ UNCHANGED <<observe_log, unobserved>>

\* the client's timeout ends before the response headers arrive: it closes
\* its connection
Timeout(c) ==
    /\ clients[c].pc = "waiting"
    /\ ~handlers[c][Len(handlers[c])].sent
    /\ clients' = [clients EXCEPT ![c].pc = "gone"]
    /\ UNCHANGED <<handlers, observe_log, unobserved>>

\* send_response ... end_headers (and the body): the response goes to the
\* client; when the client is gone the write raises or goes unnoticed. A
\* response that is logged afterwards is not logged when the write raised
SendHeaders(c, h) ==
    /\ h \in DOMAIN handlers[c]
    /\ handlers[c][h].pc = IF LogsBeforeResponse(handlers[c][h].path)
                           THEN "respond" ELSE "start"
    /\ LET r == Response(handlers[c][h].path)
           after == IF LogsBeforeResponse(handlers[c][h].path) THEN "done" ELSE "log"
       IN  \/ /\ clients[c].pc # "gone"
              /\ handlers' = [handlers EXCEPT ![c][h].pc = after,
                                              ![c][h].sent = TRUE,
                                              ![c][h].status = r.status,
                                              ![c][h].location = r.location]
           \/ /\ clients[c].pc = "gone"
              /\ \/ handlers' = [handlers EXCEPT ![c][h].pc = after,
                                                 ![c][h].status = r.status,
                                                 ![c][h].location = r.location]
                 \/ handlers' = [handlers EXCEPT ![c][h].pc = "done"]
    /\ UNCHANGED <<clients, observe_log, unobserved>>

\* self._write_log(...): status 0 for a response that is logged before it is
\* sent, the status sent otherwise
WriteLog(c, h) ==
    /\ h \in DOMAIN handlers[c]
    /\ IF LogsBeforeResponse(handlers[c][h].path)
       THEN /\ handlers[c][h].pc = "start"
            /\ observe_log' = Append(observe_log, ObserveLogEntry(c, h, 0, <<>>))
            /\ handlers' = [handlers EXCEPT ![c][h].pc =
                               IF SegmentInt(handlers[c][h].path, 0) > 0
                               THEN "sleep" ELSE "respond"]
       ELSE /\ handlers[c][h].pc = "log"
            /\ observe_log' = Append(observe_log,
                                     ObserveLogEntry(c, h, handlers[c][h].status,
                                                     handlers[c][h].location))
            /\ handlers' = [handlers EXCEPT ![c][h].pc = "done"]
    /\ UNCHANGED <<clients, unobserved>>

\* time.sleep(delay_ms / 1000.0)
Sleep(c, h) ==
    /\ h \in DOMAIN handlers[c]
    /\ handlers[c][h].pc = "sleep"
    /\ handlers' = [handlers EXCEPT ![c][h].pc = "respond"]
    /\ UNCHANGED <<clients, observe_log, unobserved>>

NextObserve ==
    \E c \in Clients :
        \/ Request(c) \/ Receive(c) \/ Timeout(c)
        \/ \E h \in 1..(MaxHops + 1) :
               SendHeaders(c, h) \/ WriteLog(c, h) \/ Sleep(c, h)

SpecObserve == InitObserve /\ [][NextObserve]_vars

(***************************************************************************)
(* Claims about the validator (checked under SpecValidator)                *)
(***************************************************************************)

\* every entry of the list is an event object
AllObjects(evs) == \A i \in 1..Len(evs) : IsDict(evs[i])

\* the positions of the events of one type
Positions(evs, t) == { i \in 1..Len(evs) : IsDict(evs[i]) /\ TypeIs(evs[i], t) }

\* the result holds a diff of one of the kinds
HasKind(out, kinds) == \E i \in 1..Len(out.diffs) : out.diffs[i].kind \in kinds

\* the validator returned, and returned no diff
Accepted(out) == out.done /\ ~out.raised /\ out.diffs = <<>>

\* each lifecycle type occurs exactly once, pause_req < pause_effective <
\* resume_req < finished
OnceInOrder(evs) ==
    /\ \A i \in 1..Len(required_once) :
           Cardinality(Positions(evs, required_once[i])) = 1
    /\ \A a \in Positions(evs, "pause_req") : \A b \in Positions(evs, "pause_effective") :
       \A c \in Positions(evs, "resume_req") : \A d \in Positions(evs, "finished") :
           a < b /\ b < c /\ c < d

\* e2.seq is an integer strictly greater than the integer e1.seq
SeqGreater(e2, e1) == Has(e2, "seq") /\ Has(e1, "seq") /\ e2.seq > e1.seq

\* f is a non-negative integer in every event and never decreases
NonDecreasing(evs, f) ==
    /\ \A i \in 1..Len(evs) : Has(evs[i], f) /\ evs[i][f] >= 0
    /\ \A i \in 2..Len(evs) : evs[i][f] >= evs[i - 1][f]

\* the minimal trace of the claim: the five lifecycle events in order, seq
\* strictly increasing, t_us and the byte counters non-negative and
\* non-decreasing, the byte counters equal at pause_effective and resume_req
MinimalTrace(evs) ==
    /\ Len(evs) = 5
    /\ \A i \in 1..5 : IsDict(evs[i]) /\ TypeIs(evs[i], required_once[i])
    /\ \A i \in 1..5 : Has(evs[i], "seq")
    /\ \A i \in 2..5 : SeqGreater(evs[i], evs[i - 1])
    /\ NonDecreasing(evs, "t_us")
    /\ NonDecreasing(evs, "bytes_delivered_total")
    /\ NonDecreasing(evs, "bytes_written_total")
    /\ evs[3].bytes_delivered_total = evs[4].bytes_delivered_total
    /\ evs[3].bytes_written_total = evs[4].bytes_written_total

\* C4: in every trace for which the validator returns no diff, every event
\* from pause_effective up to resume_req carries the bytes_delivered_total
\* and the bytes_written_total of the pause_effective event.
C4_PauseWindowFrozen ==
    Accepted(pr_out) =>
        \A pe \in Positions(events, "pause_effective") :
        \A rr \in Positions(events, "resume_req") :
        \A i \in pe..rr :
            /\ events[i].bytes_delivered_total = events[pe].bytes_delivered_total
            /\ events[i].bytes_written_total = events[pe].bytes_written_total

\* C4 witness: an accepted trace with an event strictly inside the pause
\* window and byte counters that moved before the window.
C4_Witness ==
    /\ Accepted(pr_out)
    /\ \E pe \in Positions(events, "pause_effective") :
       \E rr \in Positions(events, "resume_req") :
           /\ rr > pe + 1
           /\ events[pe].bytes_written_total > events[1].bytes_written_total

\* C5 as claimed: whenever the validator returns, no count or order diff is
\* returned iff each lifecycle type occurs exactly once and in order.
C5_CountOrderIff ==
    (pr_out.done /\ ~pr_out.raised) =>
        (~HasKind(pr_out, {"count", "order"}) <=> OnceInOrder(events))

\* C5 amended: whenever the validator returns for a non-empty list, no count
\* or order diff is returned iff each of start, pause_req, pause_effective,
\* resume_req and finished occurs exactly once and pause_req <
\* pause_effective < resume_req < finished; other types may occur anywhere.
C5_CountOrderIffNonEmpty ==
    (pr_out.done /\ ~pr_out.raised /\ events # <<>>) =>
        (~HasKind(pr_out, {"count", "order"}) <=> OnceInOrder(events))

\* C5 witness: a validated trace with the five lifecycle events once and in
\* order, another event among them, and no count or order diff.
C5_Witness ==
    /\ pr_out.done /\ ~pr_out.raised
    /\ Len(events) > 5
    /\ OnceInOrder(events)
    /\ ~HasKind(pr_out, {"count", "order"})

\* C6 as claimed: a list without pause_effective gets at least one diff, and
\* every minimal trace (seq strictly increasing, counters non-negative and
\* non-decreasing, zero delta over the pause window) gets none.
C6_RejectAccept ==
    (pr_out.done /\ AllObjects(events)) =>
        /\ (Positions(events, "pause_effective") = {} => pr_out.diffs # <<>>)
        /\ (MinimalTrace(events) => pr_out.diffs = <<>>)

\* C6 amended: a list without pause_effective is never accepted, and a
\* minimal trace whose finished event has bytes_written_total equal to the
\* body length gets no diff other than seq diffs, and no diff at all when
\* its first seq is at least 1.
C6_RejectAcceptTerminal ==
    pr_out.done =>
        /\ (Positions(events, "pause_effective") = {} => ~Accepted(pr_out))
        /\ (MinimalTrace(events) /\ events[5].bytes_written_total = body_len
            => /\ ~pr_out.raised
               /\ \A i \in 1..Len(pr_out.diffs) : pr_out.diffs[i].kind = "seq"
               /\ (events[1].seq >= 1 => pr_out.diffs = <<>>))

\* C6 witness: an accepted minimal trace whose byte counters moved.
C6_Witness ==
    /\ Accepted(pr_out)
    /\ MinimalTrace(events)
    /\ events[5].bytes_written_total > events[1].bytes_written_total

\* C7 as claimed: a seq diff is reported iff some event's seq is not strictly
\* greater than the seq of the event immediately before it.
C7_SeqDiffIff ==
    (pr_out.done /\ AllObjects(events)) =>
        (HasKind(pr_out, {"seq"})
         <=> \E i \in 2..Len(events) : ~SeqGreater(events[i], events[i - 1]))

(***************************************************************************)
(* Claims about compare_artifacts (checked under Spec)                     *)
(***************************************************************************)

\* the key holds an empty dict or an empty list
EmptyAt(doc, k) == Has(doc, k) /\ DOMAIN doc[k] = {}

\* response.body_len as the document records it, 0 when it records none
ObservedBodyLen(doc) ==
    IF Has(doc, "response") /\ IsDict(doc.response) /\ Has(doc.response, "body_len")
    THEN doc.response.body_len
    ELSE 0

\* the document's strict trace is accepted against its own body length
StrictAccepted(doc) ==
    LET r == _validate_pause_resume_contract(doc.pause_resume_strict, "baseline",
                                             ObservedBodyLen(doc))
    IN  ~r.raised /\ r.diffs = <<>>

\* the document carries a non-empty request (or requests list) and response,
\* no empty responses list or cookiejar, and no rejected strict trace
SelfClean(doc) ==
    /\ IF Has(doc, "requests") THEN ~EmptyAt(doc, "requests")
       ELSE Has(doc, "request") /\ ~EmptyAt(doc, "request")
    /\ ~EmptyAt(doc, "responses")
    /\ Has(doc, "response") /\ ~EmptyAt(doc, "response")
    /\ ~EmptyAt(doc, "cookiejar")
    /\ Has(doc, "pause_resume_strict") => StrictAccepted(doc)

\* C1 as claimed: whenever the comparison of a document with itself returns,
\* it returns (True, []).
C1_SelfCompareAlways ==
    (self_out.done /\ ~self_out.raised) => (self_out.ok /\ self_out.diffs = <<>>)

\* C1 amended: whenever the comparison of a document A with itself returns,
\* it never returns a field or length mismatch, and it returns (True, [])
\* exactly when A carries a non-empty request (or requests list) and
\* response, no empty responses list or cookiejar, and no strict trace that
\* the validator rejects against A's own response.body_len.
C1_SelfCompare ==
    (self_out.done /\ ~self_out.raised) =>
        /\ \A i \in 1..Len(self_out.diffs) :
               self_out.diffs[i].kind \notin {"mismatch", "length"}
        /\ (self_out.ok /\ self_out.diffs = <<>>) <=> SelfClean(self_out.of)

\* C1 witness: a document with a strict trace compared with itself, found
\* consistent.
C1_Witness ==
    /\ self_out.done /\ self_out.ok /\ self_out.diffs = <<>>
    /\ Has(self_out.of, "pause_resume_strict")
    /\ self_out.of.response.body_len = 1

\* both documents carry the strict section with an events list
StrictCompared ==
    /\ Has(base, "pause_resume_strict") /\ Has(qc, "pause_resume_strict")
    /\ Has(base.pause_resume_strict, "events") /\ Has(qc.pause_resume_strict, "events")

Sides == {"baseline", "qcurl"}
SideDoc(side) == IF side = "baseline" THEN base ELSE qc
SideEvents(side) == SideDoc(side).pause_resume_strict.events

\* the result holds a diff of one of the kinds tagged with the side
HasSideKind(out, side, kinds) ==
    \E i \in 1..Len(out.diffs) : out.diffs[i].kind \in kinds /\ out.diffs[i].side = side

\* C2: for any two documents, compare_artifacts returns and never raises,
\* and every strict events entry that is not an object is reported as the
\* diff "events[idx] not an object" of its side.
C2_NeverRaises ==
    cmp_out.done =>
        /\ ~cmp_out.raised
        /\ StrictCompared =>
               \A side \in Sides : \A i \in 1..Len(SideEvents(side)) :
                   ~IsDict(SideEvents(side)[i]) =>
                       \E j \in 1..Len(cmp_out.diffs) :
                           /\ cmp_out.diffs[j].kind = "not_object"
                           /\ cmp_out.diffs[j].side = side
                           /\ cmp_out.diffs[j].idx = i - 1

\* the two documents agree on everything but response.body_len
OnlyBodyLenDiffers ==
    /\ Has(base, "response") /\ Has(qc, "response")
    /\ Has(base.response, "body_len") /\ Has(qc.response, "body_len")
    /\ base.response.body_len # qc.response.body_len
    /\ Without(base.response, "body_len") = Without(qc.response, "body_len")
    /\ Without(Without(base, "response"), "runner")
         = Without(Without(qc, "response"), "runner")

\* the text of the mismatch diff for body_len under a label
BodyLenText(label) ==
    label \o " mismatch: " \o ToString(base.response.body_len) \o " != "
          \o ToString(qc.response.body_len)

\* C3 as claimed: two documents that agree on everything but
\* response.body_len get exactly one diff, and it reads
\* "response.body_len mismatch: a != b".
C3_ResponseBodyLenDiff ==
    (cmp_out.done /\ ~cmp_out.raised /\ OnlyBodyLenDiffers) =>
        /\ Len(cmp_out.diffs) = 1
        /\ Render(cmp_out.diffs[1]) = BodyLenText("response.body_len")

\* C3 amended: two documents that agree on everything but response.body_len
\* get exactly one mismatch diff, which reads "body_len mismatch: a != b",
\* and it is the only diff when each document compares clean with itself
\* (which a strict trace on both sides rules out: its terminal check fails
\* on a side).
C3_BodyLenDiff ==
    (cmp_out.done /\ ~cmp_out.raised /\ OnlyBodyLenDiffers) =>
        /\ ~cmp_out.ok
        /\ \E i \in 1..Len(cmp_out.diffs) :
               /\ Render(cmp_out.diffs[i]) = BodyLenText("body_len")
               /\ \A j \in 1..Len(cmp_out.diffs) :
                      cmp_out.diffs[j].kind \in {"mismatch", "length"} => j = i
        /\ (SelfClean(base) /\ SelfClean(qc)) => Len(cmp_out.diffs) = 1

\* C3 witness: the documents differ in response.body_len only and the one
\* diff returned reads "body_len mismatch: 1 != 0".
C3_Witness ==
    /\ cmp_out.done /\ OnlyBodyLenDiffers
    /\ Len(cmp_out.diffs) = 1
    /\ Render(cmp_out.diffs[1]) = "body_len mismatch: 1 != 0"

\* C8: whenever the comparison returns, each side gets a diff if the
\* bytes_written_total of its finished event differs from that side's own
\* response.body_len, and gets a terminal-consistency diff only then.
C8_TerminalPerSide ==
    (cmp_out.done /\ ~cmp_out.raised /\ StrictCompared) =>
        \A side \in Sides :
        \A i \in Positions(SideEvents(side), "finished") :
            Has(SideEvents(side)[i], "bytes_written_total") =>
                LET written == SideEvents(side)[i].bytes_written_total
                    observed == ObservedBodyLen(SideDoc(side))
                IN  /\ written # observed
                        => \E j \in 1..Len(cmp_out.diffs) : cmp_out.diffs[j].side = side
                    /\ (written = observed
                        /\ Cardinality(Positions(SideEvents(side), "finished")) = 1)
                        => ~HasSideKind(cmp_out, side, {"terminal"})

\* C8 witness: the two sides carry the same trace and different body
\* lengths; the side whose body length is not the finished event's
\* bytes_written_total gets the terminal diff, the other side gets none.
C8_Witness ==
    /\ cmp_out.done /\ ~cmp_out.raised /\ StrictCompared
    /\ SideEvents("baseline") = SideEvents("qcurl")
    /\ ~HasSideKind(cmp_out, "baseline", {"terminal"})
    /\ HasSideKind(cmp_out, "qcurl", {"terminal"})
    /\ ObservedBodyLen(base) = 1 /\ ObservedBodyLen(qc) = 0

\* the rules of the validator that a trace violates, each by the kind of
\* diff that reports it
ViolatedKinds(evs, blen) ==
    LET once(t) == Cardinality(Positions(evs, t)) = 1
        at(t) == CHOOSE i \in Positions(evs, t) : TRUE
        both(f, i, j) == Has(evs[i], f) /\ Has(evs[j], f)
        adjacent == { i \in 2..Len(evs) : IsDict(evs[i]) /\ IsDict(evs[i - 1]) }
    IN  (IF \E i \in adjacent : ~SeqGreater(evs[i], evs[i - 1]) THEN {"seq"} ELSE {})
        \cup (IF \E i \in adjacent :
                     both("bytes_written_total", i, i - 1)
                     /\ evs[i].bytes_written_total < evs[i - 1].bytes_written_total
              THEN {"monotonic"} ELSE {})
        \cup (IF \E i \in 1..Len(required_once) : ~once(required_once[i])
              THEN {"count"} ELSE {})
        \cup (IF (\A i \in 1..Len(required_once) : once(required_once[i]))
                 /\ ~OnceInOrder(evs)
              THEN {"order"} ELSE {})
        \cup (IF once("pause_effective") /\ once("resume_req")
                 /\ both("bytes_written_total", at("pause_effective"), at("resume_req"))
                 /\ evs[at("pause_effective")].bytes_written_total
                      # evs[at("resume_req")].bytes_written_total
              THEN {"window"} ELSE {})
        \cup (IF once("finished")
                 /\ Has(evs[at("finished")], "bytes_written_total")
                 /\ evs[at("finished")].bytes_written_total # blen
              THEN {"terminal"} ELSE {})

\* C9: for non-empty event lists on both sides, one compare_artifacts call
\* returns, for the baseline side and for the candidate side, at least one
\* diff for every rule the side's trace violates.
C9_AllViolationsReported ==
    (cmp_out.done /\ StrictCompared
       /\ SideEvents("baseline") # <<>> /\ SideEvents("qcurl") # <<>>) =>
        /\ ~cmp_out.raised
        /\ \A side \in Sides :
           \A kind \in ViolatedKinds(SideEvents(side), ObservedBodyLen(SideDoc(side))) :
               HasSideKind(cmp_out, side, {kind})

\* both documents carry a request section that is a non-empty object
BothRequests ==
    /\ Has(base, "request") /\ Has(qc, "request")
    /\ IsDict(base.request) /\ IsDict(qc.request)
    /\ base.request # EmptyDict /\ qc.request # EmptyDict

\* the comparison reported a mismatch of the field labelled label
HasMismatch(label) ==
    \E j \in 1..Len(cmp_out.diffs) :
        cmp_out.diffs[j].kind = "mismatch" /\ cmp_out.diffs[j].label = label

\* C19: whenever the request sections of the two documents differ in method,
\* url, headers, body_len or body_sha256, the comparison returns ok = False
\* with a mismatch diff of that sub-field, also when the documents carry a
\* requests list.
C19_RequestMismatch ==
    (cmp_out.done /\ BothRequests) =>
        \A i \in 1..Len(request_fields) :
            GetDiffers(base.request, qc.request, request_fields[i]) =>
                /\ ~cmp_out.raised
                /\ ~cmp_out.ok
                /\ HasMismatch(request_fields[i])

\* the optional sections with the sub-fields the comparison lists for them;
\* the lanes of progress_summary each list monotonic, now_max, total_max
OptionalSections ==
    {"cookiejar", "error", "progress_summary", "connection_observed", "pause_resume",
     "pause_resume_strict"}
ListedFields(section) ==
    CASE section = "cookiejar" -> {"records", "sha256"}
      [] section = "error" -> {"kind", "http_status", "curlcode", "http_code"}
      [] section = "progress_summary" -> {"download", "upload"}
      [] section = "connection_observed" ->
             {"request_count", "unique_connections", "conn_seq"}
      [] section = "pause_resume" ->
             {"pause_offset", "pause_count", "resume_count", "event_seq"}
      [] section = "pause_resume_strict" ->
             {"schema", "proto", "pause_offset", "resume_delay_ms"}

\* the two documents agree on every listed sub-field of a section both carry
AgreeOnListed(section) ==
    \A f \in ListedFields(section) : ~GetDiffers(base[section], qc[section], f)

\* the two documents are equal apart from the section and the runner name
SameApartFrom(section) ==
    Without(Without(base, section), "runner") = Without(Without(qc, section), "runner")

\* the comparison reported "<label> missing in one side"
HasMissing(label) ==
    \E j \in 1..Len(cmp_out.diffs) :
        cmp_out.diffs[j].kind = "missing" /\ cmp_out.diffs[j].label = label

\* C20: for each optional section, whenever the comparison returns: a
\* section absent on both sides yields no "<section> missing in one side"
\* diff; a section present on exactly one side yields that diff and
\* ok = False; a section present on both sides yields no such diff, and no
\* mismatch is reported when the two sections agree on the listed sub-fields
\* and the documents are otherwise equal.
C20_OptionalSections ==
    (cmp_out.done /\ ~cmp_out.raised) =>
        \A section \in OptionalSections :
            LET in_base == Has(base, section)
                in_qc == Has(qc, section)
            IN  /\ (~in_base /\ ~in_qc) => ~HasMissing(section)
                /\ (in_base # in_qc) => (HasMissing(section) /\ ~cmp_out.ok)
                /\ (in_base /\ in_qc) =>
                       /\ ~HasMissing(section)
                       /\ (AgreeOnListed(section) /\ SameApartFrom(section))
                              => \A j \in 1..Len(cmp_out.diffs) :
                                     cmp_out.diffs[j].kind # "mismatch"

\* the list fields with the sub-fields compared in their elements
ListFields(label) == IF label = "requests" THEN request_fields ELSE response_fields

\* the label of sub-field f of the element at index i (from 0)
ElementLabel(label, i, f) == label \o "[" \o ToString(i) \o "]." \o f

\* what C21 says of one list field that both documents carry
ListCompared(label) ==
    LET lhs == base[label]
        rhs == qc[label]
        fields == ListFields(label)
        longest == IF Len(lhs) > Len(rhs) THEN Len(lhs) ELSE Len(rhs)
    IN  IF Len(lhs) # Len(rhs)
        THEN /\ Cardinality({ j \in 1..Len(cmp_out.diffs) :
                                  /\ cmp_out.diffs[j].kind = "length"
                                  /\ cmp_out.diffs[j].label = label }) = 1
             /\ \A i \in 1..longest : \A k \in 1..Len(fields) :
                    ~HasMismatch(ElementLabel(label, i - 1, fields[k]))
        ELSE \A i \in 1..Len(lhs) : \A k \in 1..Len(fields) :
                 HasMismatch(ElementLabel(label, i - 1, fields[k]))
                     <=> GetDiffers(lhs[i], rhs[i], fields[k])

OwnValidation(side) ==
    _validate_pause_resume_contract(SideDoc(side).pause_resume_strict, side,
                                    ObservedBodyLen(SideDoc(side)))

\* the scenario parameters of the strict section
strict_params == {"schema", "proto", "pause_offset", "resume_delay_ms"}

\* C22: when both documents carry pause_resume_strict, the comparison
\* raises exactly when the validation of one side's own trace raises;
\* otherwise it reports a mismatch of a scenario parameter exactly when the
\* two sections differ in it, the diffs tagged with a side are exactly the
\* diffs of that side's own validation, and when the parameters are equal
\* and each trace passes its own validation nothing is reported but a
\* difference of the two responses, however the two traces differ.
C22_StrictPerSide ==
    (cmp_out.done /\ Has(base, "pause_resume_strict") /\ Has(qc, "pause_resume_strict")) =>
        /\ cmp_out.raised <=> \E side \in Sides : OwnValidation(side).raised
        /\ ~cmp_out.raised =>
               /\ \A f \in strict_params :
                      HasMismatch(f)
                          <=> GetDiffers(base.pause_resume_strict, qc.pause_resume_strict, f)
               /\ \A side \in Sides :
                      SelectSeq(cmp_out.diffs, LAMBDA d : d.side = side)
                          = OwnValidation(side).diffs
               /\ (/\ \A f \in strict_params :
                         ~GetDiffers(base.pause_resume_strict, qc.pause_resume_strict, f)
                   /\ \A side \in Sides : OwnValidation(side).diffs = <<>>)
                      => /\ cmp_out.ok <=> base.response = qc.response
                         /\ \A j \in 1..Len(cmp_out.diffs) :
                                cmp_out.diffs[j].label = "body_len"

\* C22 witness: the two sides carry different traces, each accepted against
\* its own body length, and equal parameters; the documents are consistent.
C22_Witness ==
    /\ cmp_out.done /\ ~cmp_out.raised /\ StrictCompared
    /\ SideEvents("baseline") # SideEvents("qcurl")
    /\ \A side \in Sides : OwnValidation(side).diffs = <<>>
    /\ cmp_out.ok

\* the fields of a document that are about the run and not compared
RunFields == {"runner", "args", "stdout", "stderr", "exit_code", "duration_ms"}

\* what a side may carry beside the listed fields: no run field and no
\* paused_data_events, or every run field with one of two paused_data_events
RunValues ==
    LET run == [runner |-> "candidate", args |-> "['-n', '1']", stdout |-> "out",
                stderr |-> "err", exit_code |-> 1, duration_ms |-> 5]
    IN  {<<EmptyDict, <<>>>>, <<run, <<"[]">>>>, <<run, <<"[5]">>>>}

\* doc with its run fields replaced by run and, where it has a pause_resume
\* object, that object's paused_data_events set to pde (or removed)
Rerun(doc, run, pde) ==
    LET top == [k \in ((DOMAIN doc) \ RunFields) \cup DOMAIN run |->
                   IF k \in DOMAIN run THEN run[k] ELSE doc[k]]
    IN  IF Has(top, "pause_resume") /\ IsDict(top.pause_resume)
        THEN With(top, "pause_resume",
                  SetOpt(top.pause_resume, "paused_data_events", pde))
        ELSE top

\* C26: the verdict of compare_artifacts is a function of the listed
\* comparison fields only: a pair of documents that agrees with the compared
\* pair on every listed field gets the same (ok, diffs), whatever its runner,
\* args, stdout, stderr, exit_code, duration_ms and
\* pause_resume.paused_data_events are
C26_ListedFieldsOnly ==
    cmp_out.done =>
        \A rb \in RunValues : \A rq \in RunValues :
            compare_artifacts(Rerun(base, rb[1], rb[2]), Rerun(qc, rq[1], rq[2]))
                = cmp_out

\* two documents that differ in runner and in paused_data_events, and in no
\* listed field, were compared and found equal
C26_Witness ==
    /\ cmp_out.done /\ cmp_out.ok
    /\ base.runner # qc.runner
    /\ Has(base, "pause_resume") /\ Has(qc, "pause_resume")
    /\ IsDict(base.pause_resume) /\ IsDict(qc.pause_resume)
    /\ Has(base.pause_resume, "paused_data_events")
    /\ Has(qc.pause_resume, "paused_data_events")
    /\ base.pause_resume.paused_data_events # qc.pause_resume.paused_data_events

(***************************************************************************)
(* Claims about the log extraction (checked under SpecExtract)             *)
(***************************************************************************)

\* the well-formed lines that carry the correlation id, in file order
MatchingLines(log, req_id) ==
    SelectSeq(log, LAMBDA l : l.nparts = 7 /\ ReqIdOf(l.url) = req_id)

\* the observations of the matching lines, in file order
InFileOrder ==
    LET m == MatchingLines(access_log, obs_out.req_id)
    IN  [j \in 1..Len(m) |->
            IF obs_out.call = "nghttpx_list"
            THEN NghttpxObserved(m[j], obs_out.include_content_length)
            ELSE HttpdObserved(m[j], obs_out.include_content_length)]

\* a list extraction (httpd or nghttpx) has run
ListDone == obs_out.done /\ obs_out.call \in {"httpd_list", "nghttpx_list"}

\* C10 as claimed: whenever list extraction returns, it returns one
\* observation per matching line, in the order of the lines in the file.
C10_FileOrder ==
    (ListDone /\ ~obs_out.raised) => obs_out.observed = InFileOrder

\* C10 amended: for N >= 1 matching well-formed lines, list extraction
\* returns exactly when expected_count is not positive or equals N and every
\* matching line's status is empty or a decimal number; the list then holds
\* exactly N observations, one per matching line, in ascending order of
\* id-stripped URL, observations of equal URL in file order; no other line
\* contributes.
C10_SortedByUrl ==
    ListDone =>
        LET m == MatchingLines(access_log, obs_out.req_id)
            N == Len(m)
            obs == obs_out.observed
        IN  /\ ~obs_out.raised
                <=> /\ N >= 1
                    /\ obs_out.expected_count <= 0 \/ obs_out.expected_count = N
                    /\ \A i \in 1..N : m[i].status \in StatusTexts \cup {""}
            /\ ~obs_out.raised =>
                /\ Len(obs) = N
                /\ \E pi \in Permutations(1..N) :
                       /\ \A j \in 1..N : obs[j] = InFileOrder[pi[j]]
                       /\ \A j \in 1..N : \A k \in (j + 1)..N :
                              obs[j].url = obs[k].url => pi[j] < pi[k]
                /\ \A j \in 1..N : \A k \in (j + 1)..N : ~UrlLess(obs[k].url, obs[j].url)

\* C10 witness: two matching lines logged in descending URL order and a line
\* of another id between them; the list returned holds the two observations
\* in ascending URL order.
C10_Witness ==
    /\ ListDone /\ ~obs_out.raised
    /\ Len(access_log) = 3
    /\ Len(obs_out.observed) = 2
    /\ access_log[2].nparts = 7
    /\ ReqIdOf(access_log[2].url) # obs_out.req_id
    /\ obs_out.observed = <<InFileOrder[2], InFileOrder[1]>>
    /\ InFileOrder[1].url # InFileOrder[2].url

\* the number of well-formed log lines that carry the requested id
MatchCount == Len(MatchingLines(access_log, obs_out.req_id))

\* C11 as claimed: a list extraction whose expected_count differs from the
\* number of matching lines fails with the count-mismatch error, and a list
\* is returned only when the two numbers are equal.
C11_CountMismatchAlways ==
    ListDone =>
        /\ obs_out.expected_count # MatchCount
            => obs_out.raised /\ obs_out.error = "AssertionError: record count mismatch"
        /\ ~obs_out.raised => obs_out.expected_count = MatchCount

\* C11 amended: a list extraction with a positive expected_count and at
\* least one matching line fails with the count-mismatch error whenever
\* expected_count differs from the number of matching lines; with no
\* matching line it fails with the not-found error; a list is returned only
\* when expected_count equals the number of matching lines or is not
\* positive (no count is then required).
C11_CountMismatchPositive ==
    ListDone =>
        /\ (obs_out.expected_count > 0 /\ MatchCount >= 1
              /\ obs_out.expected_count # MatchCount)
            => obs_out.raised /\ obs_out.error = "AssertionError: record count mismatch"
        /\ MatchCount = 0
            => obs_out.raised /\ obs_out.error = "AssertionError: no matching record"
        /\ ~obs_out.raised
            => obs_out.expected_count = MatchCount \/ obs_out.expected_count <= 0

\* C11 witness: an nghttpx list extraction that expects one line finds two
\* and fails with the count-mismatch error.
C11_Witness ==
    /\ ListDone /\ obs_out.call = "nghttpx_list"
    /\ obs_out.expected_count = 1 /\ MatchCount = 2
    /\ obs_out.raised /\ obs_out.error = "AssertionError: record count mismatch"

\* C12 as claimed: every extraction entry point fails with the not-found
\* error and returns no observation when no line of the log carries the
\* requested id, also when the log holds no line or only malformed lines.
C12_NotFound ==
    LET carried ==
          IF obs_out.call = "ws"
          THEN \E i \in 1..Len(access_log) :
                  /\ "json" \in DOMAIN access_log[i]
                  /\ IsDict(access_log[i].json)
                  /\ Has(access_log[i].json, "id")
                  /\ access_log[i].json.id = obs_out.req_id
          ELSE MatchCount >= 1
    IN  (obs_out.done /\ ~carried)
            => /\ obs_out.raised
               /\ obs_out.error = "AssertionError: no matching record"
               /\ obs_out.observed = <<>>

\* the list extraction that ran, run again on another log
ListAgain(log) ==
    IF obs_out.call = "nghttpx_list"
    THEN nghttpx_observed_list_for_id(log, obs_out.req_id, obs_out.expected_count,
                                      obs_out.include_content_length)
    ELSE httpd_observed_list_for_id(log, obs_out.req_id, obs_out.expected_count,
                                    obs_out.include_content_length)

\* C16 as claimed: the list returned is in ascending order of id-stripped
\* URL, and a log that holds the same lines in another arrival order yields
\* the same list.
C16_ArrivalOrder ==
    (ListDone /\ ~obs_out.raised)
    => LET obs == obs_out.observed
       IN  /\ \A j \in 1..Len(obs) : \A k \in (j + 1)..Len(obs) :
                  ~UrlLess(obs[k].url, obs[j].url)
           /\ \A p \in Permutations(1..Len(access_log)) :
                  ListAgain([i \in 1..Len(access_log) |-> access_log[p[i]]]).observed = obs

\* single extraction has run
OneDone == obs_out.done /\ obs_out.call \in {"httpd", "nghttpx"}

\* the observation single extraction builds of a log line
OneObserved(line) ==
    IF obs_out.call = "nghttpx" THEN NghttpxObserved(line, TRUE)
    ELSE HttpdObserved(line, TRUE)

\* C18: a matching line is a range request iff its logged Range is neither
\* empty nor "-". With require_range, single extraction fails unless the
\* matching lines hold a range request and a non-range request, and what it
\* returns is the observation of the first matching range request in file
\* order (so it carries a range header); without require_range what it
\* returns is the observation of the first matching line. It fails only when
\* no line matches, when require_range asks for a request that is missing,
\* or when the status of the chosen line is not a number.
C18_RangePolicy ==
    OneDone =>
        LET m == MatchingLines(access_log, obs_out.req_id)
            R == { i \in 1..Len(m) : m[i].range # "" /\ m[i].range # "-" }
            first == IF obs_out.require_range
                     THEN CHOOSE i \in R : \A j \in R : i <= j
                     ELSE 1
            missing == \/ m = <<>>
                       \/ obs_out.require_range /\ (R = {} \/ R = 1..Len(m))
        IN  /\ missing => obs_out.raised
            /\ ~missing =>
                   /\ obs_out.raised <=> m[first].status \notin StatusTexts \cup {""}
                   /\ ~obs_out.raised =>
                          /\ obs_out.observed = OneObserved(m[first])
                          /\ "range" \in DOMAIN obs_out.observed.headers <=> first \in R

\* C18 witness: with require_range, the first matching line is not a range
\* request and a later one is; the later one is returned.
C18_Witness ==
    /\ OneDone /\ obs_out.require_range /\ ~obs_out.raised
    /\ LET m == MatchingLines(access_log, obs_out.req_id)
       IN  /\ Len(m) >= 2
           /\ m[1].range \in {"", "-"}
           /\ obs_out.observed # OneObserved(m[1])
           /\ "range" \in DOMAIN obs_out.observed.headers

(***************************************************************************)
(* Claims about the URL helpers (checked under SpecUrl)                    *)
(***************************************************************************)

\* one of the two _strip_query_id has run on helper_in
Stripped == helper_out.done /\ helper_out.call \in {"observed", "server"}

\* the function that ran, applied to a text
StripAgain(url) ==
    IF helper_out.call = "server" THEN http_observe_server_strip_query_id(url)
    ELSE _strip_query_id(url)

\* the query of the text has a parameter named id
HasIdParameter(url) ==
    \E g \in { parse_qs(urlsplit(url).query, TRUE)[i] :
                  i \in 1..Len(parse_qs(urlsplit(url).query, TRUE)) } : g.key = <<"id">>

\* C13 as claimed: stripping the correlation id is idempotent for every URL,
\* and the stripped URL has no query parameter named id.
C13_StripIdempotent ==
    Stripped => /\ StripAgain(helper_out.url) = helper_out.url
                /\ ~HasIdParameter(helper_out.url)

\* a test has requested helper_in with its token appended
Appended == helper_out.done /\ helper_out.call = "append"

IsChain(list) ==
    /\ list # <<>>
    /\ { list[i].url : i \in 1..Len(list) } = { HopUrl(h) : h \in 0..(Len(list) - 1) }

\* the list in another arrival order
Rearranged(list, p) == [i \in 1..Len(list) |-> list[p[i]]]

\* C15: for every arrival order of the observations of one redirect chain,
\* _order_redir_chain returns them by descending hop count, /redir/N first
\* and /redir/0 last; the result is a permutation of the input and is the
\* same for every arrival order.
C15_RedirOrder ==
    (helper_out.done /\ helper_out.call = "_order_redir_chain"
        /\ IsChain(helper_in.observed_list))
    => LET list == helper_in.observed_list
           N == Len(list) - 1
       IN  /\ helper_out.ordered = [i \in 1..(N + 1) |-> [url |-> HopUrl(N + 1 - i)]]
           /\ \E p \in Permutations(1..(N + 1)) :
                  helper_out.ordered = Rearranged(list, p)
           /\ \A p \in Permutations(1..(N + 1)) :
                  _order_redir_chain(Rearranged(list, p)) = helper_out.ordered

\* C15 witness: the hops arrive as /redir/1, /redir/3, /redir/0, /redir/2
\* and are returned as /redir/3, /redir/2, /redir/1, /redir/0.
C15_Witness ==
    /\ helper_out.done /\ helper_out.call = "_order_redir_chain"
    /\ helper_in.observed_list
         = <<[url |-> HopUrl(1)], [url |-> HopUrl(3)], [url |-> HopUrl(0)],
             [url |-> HopUrl(2)]>>
    /\ helper_out.ordered
         = <<[url |-> HopUrl(3)], [url |-> HopUrl(2)], [url |-> HopUrl(1)],
             [url |-> HopUrl(0)]>>

\* the peer ports the summary is made of: 0 for an entry without one
PortsOf(entries) ==
    [i \in 1..Len(entries) |->
        IF Has(entries[i], "peer_port") THEN entries[i].peer_port ELSE 0]

\* the two port lists have the same reuse pattern
SamePattern(ps, qs) ==
    /\ Len(ps) = Len(qs)
    /\ \A i, j \in 1..Len(ps) : (ps[i] = ps[j]) <=> (qs[i] = qs[j])

\* C17: the connection-reuse summary is the first-seen-order mapping of the
\* peer ports: equal numbers exactly for equal ports, the first request is
\* 1, each port not seen before gets the previous maximum plus 1,
\* unique_connections is the number of distinct ports (0 for no request),
\* request_count is the length; two lists with the same reuse pattern give
\* the same summary.
C17_ConnSeq ==
    (helper_out.done /\ helper_out.call = "_connection_observed")
    => LET ports == PortsOf(helper_in.entries)
           n == Len(ports)
           seq == helper_out.conn_seq
           Max(S) == CHOOSE m \in S : \A x \in S : x <= m
       IN  /\ Len(seq) = n
           /\ helper_out.request_count = n
           /\ \A i, j \in 1..n : (seq[i] = seq[j]) <=> (ports[i] = ports[j])
           /\ n > 0 => seq[1] = 1
           /\ \A i \in 2..n :
                  (\A j \in 1..(i - 1) : ports[j] # ports[i])
                  => seq[i] = Max({ seq[j] : j \in 1..(i - 1) }) + 1
           /\ helper_out.unique_connections = Cardinality({ ports[i] : i \in 1..n })
           /\ \A other \in [1..n -> {0, 5001, 5002, 5003}] :
                  SamePattern(ports, other)
                  => _connection_observed([i \in 1..n |-> [peer_port |-> other[i]]])
                       = [request_count |-> helper_out.request_count,
                          unique_connections |-> helper_out.unique_connections,
                          conn_seq |-> seq]

\* C17 witness: the ports 5001, 5002, 5001 give conn_seq 1, 2, 1 and two
\* connections for three requests.
C17_Witness ==
    /\ helper_out.done /\ helper_out.call = "_connection_observed"
    /\ PortsOf(helper_in.entries) = <<5001, 5002, 5001>>
    /\ helper_out.conn_seq = <<1, 2, 1>>
    /\ helper_out.unique_connections = 2
    /\ helper_out.request_count = 3

\* the parser has summarised a stderr
Parsed == helper_out.done /\ helper_out.call = "_parse_pause_resume"

\* some PAUSE line precedes some RESUMED line which precedes some FINISHED line
MarkersInOrder(stderr_lines) ==
    \E i, j, k \in 1..Len(stderr_lines) :
        /\ i < j /\ j < k
        /\ stderr_lines[i].pause
        /\ stderr_lines[j].resumed
        /\ stderr_lines[k].finished

\* C30: the event_seq of the weak parser is [pause, resume, finished] only
\* if, in the stderr lines, a PAUSE marker precedes a RESUMED marker which
\* precedes the FINISHED marker
C30_EventSeqOrder ==
    (Parsed /\ helper_out.event_seq = <<"pause", "resume", "finished">>)
        => MarkersInOrder(helper_in.stderr_lines)

(***************************************************************************)
(* Claims about the proxy (checked under SpecProxy)                        *)
(***************************************************************************)

\* the client of connection c has sent a request head
SentHead(c) == conns[c].pc # "idle" /\ conns[c].head.kind = "head"

\* the value of the Proxy-Authorization header the client sent, "" if none
SentCredential(c) ==
    LET raw == conns[c].head.headers
        names == DOMAIN raw \cap {"Proxy-Authorization", "proxy-authorization"}
    IN  IF names = {} THEN "" ELSE raw[CHOOSE k \in names : TRUE]

\* the worker of connection c is in the forward or the CONNECT handler
InHandler(c) ==
    conns[c].pc \in {"forward", "forward_send", "forward_recv", "connect",
                     "connect_reply", "relay", "close_upstream"}

\* C23 as claimed: a connection whose Proxy-Authorization header is not the
\* configured credential has no upstream socket, its worker is never in the
\* forward or CONNECT handler, and when its worker has ended it has been
\* answered with 407.
C23_AuthRequired ==
    \A c \in Conns :
        (SentHead(c) /\ SentCredential(c) # _auth_value) =>
            /\ conns[c].upstream = "none"
            /\ ~InHandler(c)
            /\ conns[c].pc = "done" => conns[c].sent_407

\* C23 amended: such a connection never has an upstream socket and never
\* reaches a handler; when its worker has ended, it has been answered with
\* 407 if its request line had at least three parts and the send did not
\* raise, and it has been closed without an answer otherwise; a worker is in
\* a handler only with auth_ok true.
C23_AuthRequiredWellFormed ==
    \A c \in Conns :
        /\ InHandler(c) => (conns[c].auth_ok /\ SentCredential(c) = _auth_value)
        /\ (SentHead(c) /\ SentCredential(c) # _auth_value) =>
               /\ conns[c].upstream = "none"
               /\ ~InHandler(c)
               /\ ~conns[c].sent_200 /\ conns[c].to_client = 0 /\ conns[c].to_upstream = 0
               /\ conns[c].pc = "done" =>
                      IF Len(conns[c].head.line) >= 3
                      THEN conns[c].sent_407 \/ conns[c].why = "exception"
                      ELSE ~conns[c].sent_407 /\ conns[c].why = "no request"

\* C23 witness: a CONNECT request with a wrong credential has been answered
\* with 407 and its connection closed, with no upstream socket.
C23_Witness ==
    \E c \in Conns :
        /\ conns[c].pc = "done" /\ conns[c].sent_407
        /\ Upper(conns[c].method) = "CONNECT"
        /\ SentCredential(c) \notin {"", _auth_value}
        /\ conns[c].upstream = "none"

\* the relay of connection c has ended
RelayEnded(c) == conns[c].sent_200 /\ conns[c].pc \in {"close_upstream", "finally", "done"}

\* C24: the relay of a CONNECT tunnel ends only when a peer has closed (or a
\* socket operation raised) or when no socket has been readable for the
\* whole timeout window, and when the worker has ended both sockets are
\* closed.
C24_RelayIdleTimeout ==
    \A c \in Conns :
        /\ RelayEnded(c) =>
               \/ conns[c].why \in {"eof", "exception"}
               \/ conns[c].why = "deadline" /\ conns[c].idle >= RelayTimeout
        /\ (conns[c].sent_200 /\ conns[c].pc = "done") =>
               (conns[c].client = "closed" /\ conns[c].upstream = "closed")

\* the lines of the log written for connection c
LinesOf(c) == SelectSeq(proxy_log, LAMBDA e : e.conn = c)

\* the worker of connection c has answered 407 or contacted the upstream
Answered(c) == conns[c].sent_407 \/ conns[c].upstream # "none"

\* C25 as claimed: every connection whose worker has ended has exactly one
\* line in the log, and a connection that was answered 407 or for which the
\* upstream was contacted had its line before.
C25_OneLinePerConnection ==
    \A c \in Conns :
        /\ conns[c].pc = "done" => Len(LinesOf(c)) = 1
        /\ Answered(c) => Len(LinesOf(c)) = 1

\* C25 amended: under every interleaving of the workers, the log holds at
\* most one line per connection; a connection whose worker has read a
\* request line of at least three parts and has gone past the append has
\* exactly one, which holds the method in upper case, the target, the
\* version and auth_ok of its own request; a connection without such a
\* request line has none; the line is there before the 407 or the upstream
\* connection.
C25_OneLinePerRequest ==
    \A c \in Conns :
        LET logged == conns[c].pc \notin {"idle", "read", "log"}
                      /\ conns[c].head.kind = "head" /\ Len(conns[c].head.line) >= 3
        IN  /\ Len(LinesOf(c)) = IF logged THEN 1 ELSE 0
            /\ logged =>
                   LET e == LinesOf(c)[1]
                   IN  /\ e.method = Upper(conns[c].head.line[1])
                       /\ e.target = conns[c].head.line[2]
                       /\ e.version = conns[c].head.line[3]
                       /\ e.auth_ok = (SentCredential(c) = _auth_value)
            /\ Answered(c) => logged

\* C25 witness: two workers were between reading the head and answering at
\* the same time, and the log holds the line of the second connection
\* before the line of the first.
C25_Witness ==
    /\ Len(proxy_log) = 2
    /\ proxy_log[1].conn = 2 /\ proxy_log[2].conn = 1
    /\ conns[1].pc = "send_407" /\ conns[2].pc = "forward"

\* C27: a worker that has ended has closed the client socket and every
\* upstream socket it opened.
WorkerClosesSockets ==
    \A c \in Conns :
        conns[c].pc = "done" =>
            (conns[c].client = "closed" /\ conns[c].upstream \in {"none", "closed"})

\* C27: a step of one worker, also one that fails, leaves the accept loop
\* and every other worker as they are.
WorkerStepsAlone ==
    \A c \in Conns :
        (conns[c].pc # "idle" /\ conns'[c] # conns[c]) =>
            /\ listening' = listening
            /\ \A d \in Conns \ {c} : conns'[d] = conns[d]

\* C27: on every path through a worker the client socket and every upstream
\* socket it opened are closed when the worker ends, and no step of a
\* worker stops the accept loop or changes another worker; while the accept
\* loop runs a new connection can be accepted whatever the workers did.
C27_SocketsClosed ==
    /\ [](WorkerClosesSockets
          /\ \A c \in Conns : (listening /\ conns[c].pc = "idle") => ENABLED Accept(c))
    /\ [][WorkerStepsAlone]_vars

\* C27 witness: a worker has ended on an exception after it opened an
\* upstream socket, both its sockets are closed, the accept loop runs and
\* the other worker is relaying.
C27_Witness ==
    \E c \in Conns : \E d \in Conns :
        /\ conns[c].pc = "done" /\ conns[c].why = "exception"
        /\ conns[c].upstream = "closed" /\ conns[c].client = "closed"
        /\ listening
        /\ conns[d].pc = "relay"

(***************************************************************************)
(* Claims about the observation server (checked under SpecObserve)         *)
(***************************************************************************)

\* client c asked for /redir/n with a correlation id, followed every
\* redirect to the last response, and every handler of its requests ended
FollowedChain(c, n) ==
    /\ clients[c].pc = "done"
    /\ startswith(handlers[c][1].path, <<"/", "redir", "/", Digit(n)>>)
    /\ QueryId(handlers[c][1].path) # <<>>
    /\ \A h \in 1..Len(handlers[c]) : handlers[c][h].pc = "done"

\* the log entries that carry id t
Carrying(t) == SelectSeq(observe_log, LAMBDA e : e.id = t)

\* the log holds n + 1 entries with id t: one per hop from n down to 0, 302
\* above hop 0 and 200 for hop 0
ChainLogged(t, n) ==
    /\ Len(Carrying(t)) = n + 1
    /\ \A k \in 0..n :
          \E i \in 1..(n + 1) :
              /\ startswith(Carrying(t)[i].path, <<"/", "redir", "/", Digit(k)>>)
              /\ Carrying(t)[i].status = IF k > 0 THEN 302 ELSE 200

\* C28: a client that follows the redirects from /redir/N with correlation
\* id t makes the server log exactly N+1 requests carrying id t, for
\* /redir/N down to /redir/0, with status 302 above hop 0 and 200 for
\* /redir/0; each Location points to hop n-1 with the same id
C28_RedirChain ==
    \A c \in Clients : \A n \in 0..MaxHops :
        FollowedChain(c, n) =>
            LET t == Text(QueryId(handlers[c][1].path))
            IN  /\ ChainLogged(t, n)
                /\ \A h \in 1..Len(handlers[c]) :
                      handlers[c][h].status = 302 =>
                          /\ startswith(handlers[c][h].location,
                                        <<"/", "redir", "/", Digit(n - h)>>)
                          /\ Text(QueryId(handlers[c][h].location)) = t

\* the log entries written for the request h of client c
EntriesOf(c, h) == SelectSeq(observe_log, LAMBDA e : e.req = <<c, h>>)

\* the request h of client c asks for a delayed response
Delayed(c, h) == startswith(handlers[c][h].path, <<"/", "delay_headers", "/">>)

\* C29: for a /delay_headers/<ms> request the server appends exactly one log
\* entry, with status 0, before it sleeps and before it sends any response
\* header: the entry is there while the handler sleeps and when the client
\* has gone before the response, and no second entry follows the response
C29_DelayLoggedFirst ==
    \A c \in Clients : \A h \in 1..Len(handlers[c]) :
        Delayed(c, h) =>
            /\ handlers[c][h].pc = "start" => EntriesOf(c, h) = <<>>
            /\ handlers[c][h].pc \in {"sleep", "respond", "done"} =>
                  /\ Len(EntriesOf(c, h)) = 1
                  /\ EntriesOf(c, h)[1].status = 0
                  /\ EntriesOf(c, h)[1].id = Text(QueryId(handlers[c][h].path))
            /\ handlers[c][h].sent => handlers[c][h].pc = "done"
            /\ handlers[c][h].pc \in {"start", "sleep", "respond", "done"}

\* a client gave up while the handler slept, the handler ended without a
\* response, and the entry with status 0 is in the log
C29_Witness ==
    \E c \in Clients :
        /\ clients[c].pc = "gone"
        /\ Delayed(c, 1)
        /\ SegmentInt(handlers[c][1].path, 0) > 0
        /\ handlers[c][1].pc = "done" /\ ~handlers[c][1].sent
        /\ Len(EntriesOf(c, 1)) = 1 /\ EntriesOf(c, 1)[1].status = 0

====
